---- MODULE Spec2Model ----
(***************************************************************************)
(* A model of the OmFileReader facade (src/unnamed/part_004): the reader's *)
(* four fields, initialize() with its suspend points, dispose(), the       *)
(* metadata accessors, child lookup, and read()/readInto() driving the     *)
(* native decoder one backend fetch at a time.                             *)
(*                                                                         *)
(* The native library behind the WASM exports, the om_header, om_trailer,  *)
(* om_variable and om_decoder functions, is not among the sources: only    *)
(* its declarations in src/src/lib/wasm-types.d.ts and its callers are.    *)
(* Its operators below are written from spec.md sections 4.1 to 4.4        *)
(* and are marked as such where they are defined.                          *)
(*                                                                         *)
(* Bytes are modelled by the file region they were fetched from: a buffer  *)
(* holds a token [offset, size], and the native parsers look the region up *)
(* in the file.  JS "null" is the empty sequence, a value x is <<x>>.      *)
(***************************************************************************)
EXTENDS Integers, Sequences, FiniteSets, TLC

VARIABLES
  file,             \* the file behind the backend (fixed at construction)
  variable,         \* OmFileReader.variable: null or the native handle
  variableData,     \* OmFileReader.variableData: null or the metadata bytes
  variableDataPtr,  \* OmFileReader.variableDataPtr: null or the heap address
  offsetSize,       \* OmFileReader.offsetSize: null or {offset, size}
  parent,           \* null, or the fields of the reader this one is a child of
  heap,             \* WASM heap blocks that hold metadata records
  init,             \* the initialize() call: its position and locals
  call,             \* the client call: an accessor, a child lookup or a read
  life,             \* the facade state of spec.md 4.5 (history variable)
  wasmModuleRaw,    \* wasm.ts: null or the imported Emscripten module
  wasmModuleWrapped, \* wasm.ts: null or the wrapped module
  wasmCalls,        \* the initWasm()/getWasmModule() call of each caller
  wasmResolved,     \* the modules initWasm() calls have resolved with (history variable)
  backendCall,      \* a getBytes call made of a backend, and its outcome
  reads,            \* the read()/readInto() call of each caller, when several are in flight
  wasmHeap,         \* the WASM heap blocks those calls allocate
  mhb,              \* a MemoryHttpBackend: its fields, its loads and its callers
  s3                \* an S3Backend: its cache and its callers

\* the state outside the reader: the WASM module and the backend call
aside == <<reads, wasmHeap, mhb, s3>>

\* the reader with its file, and the module state of wasm.ts
facade == <<file, parent, variable, variableData, variableDataPtr, offsetSize, heap, init, call, life>>
wasm == <<wasmModuleRaw, wasmModuleWrapped, wasmCalls, wasmResolved>>

env == <<wasmModuleRaw, wasmModuleWrapped, wasmCalls, wasmResolved, backendCall, aside>>

vars == <<file, parent, variable, variableData, variableDataPtr, offsetSize, heap, init, call, life, env>>

reader == <<variable, variableData, variableDataPtr, offsetSize>>

-----------------------------------------------------------------------------
(* Bounds of the model.                                                    *)

\* requested coordinates run from -Slack to extent + Slack
Slack == 1
\* caller buffers of readInto have 0 .. MaxBufLen elements
MaxBufLen == 4
\* number of heap blocks available for metadata records, beyond one for
\* each record below the root of the file's tree
HeapSize == 3

\* the depth of the trees walked, counted in nodes
MaxDepth == 3
\* the length of the source behind the backends
SourceLength == 4
\* the number of callers of initWasm()/getWasmModule()
NumCallers == 2
\* the loads, and the HEAD requests, a MemoryHttpBackend starts
MaxLoads == 3
\* the GetObject commands an S3Backend sends
MaxSends == 4

-----------------------------------------------------------------------------
(* Program constants.                                                      *)

OM_HEADER_INVALID == 0
OM_HEADER_LEGACY == 1
OM_HEADER_READ_TRAILER == 2
ERROR_OK == 0
DATA_TYPE_FLOAT == 9
DATA_TYPE_FLOAT_ARRAY == 20
DATA_TYPE_DOUBLE_ARRAY == 21
\* default of read()/readInto()'s ioSizeMax
IoSizeMaxDefault == 65536
\* default of read()/readInto()'s ioSizeMerge
IoSizeMergeDefault == 512

\* the array types read() can allocate an output for (its switch)
ReadableTypes == {12, 13, 14, 15, 16, 17, DATA_TYPE_FLOAT_ARRAY, DATA_TYPE_DOUBLE_ARRAY}

\* om_header_size() and om_trailer_size() of the native library
HeaderSize == 40
TrailerSize == 24

-----------------------------------------------------------------------------
(* Optional values and small helpers.                                      *)

Null == <<>>
Some(x) == <<x>>
IsNull(o) == o = <<>>
Get(o) == o[1]

Min(a, b) == IF a < b THEN a ELSE b
Max(a, b) == IF a > b THEN a ELSE b

RECURSIVE Product(_)
Product(s) == IF s = <<>> THEN 1 ELSE Head(s) * Product(Tail(s))

Region(o, n) == [offset |-> o, size |-> n]
NoBytes == Region(-1, 0)

-----------------------------------------------------------------------------
(* The files.  A variable record is what a metadata record of spec.md 6    *)
(* decodes to; a file has a header type, a trailer, a root record and the  *)
(* chunk layout: "index" is the chunk index table (one entry of            *)
(* "entrySize" bytes per chunk, in row-major chunk order) and "chunk[k]"   *)
(* is the compressed payload span of chunk k-1.  The value stored at a     *)
(* global coordinate is its row-major position, as in the test file        *)
(* (values 0 .. 24 of a [5,5] array).                                      *)

NoVar ==
  [type |-> 0, compression |-> 4, scale |-> 1, add |-> 0, dims |-> <<>>, chunks |-> <<>>,
   name |-> Null, children |-> <<>>, scalar |-> Null, scalarError |-> ERROR_OK]

ChildVar ==
  [NoVar EXCEPT !.type = DATA_TYPE_FLOAT, !.name = Some("child"), !.scalar = Some(7)]

\* a scalar whose embedded payload is malformed: the native getter reports
\* an error
BadScalarVar == [ChildVar EXCEPT !.scalar = Null, !.scalarError = 1]

Var2D ==
  [NoVar EXCEPT !.type = DATA_TYPE_FLOAT_ARRAY, !.compression = 0,
                !.dims = <<3, 3>>, !.chunks = <<2, 2>>]

Var1D ==
  [NoVar EXCEPT !.type = DATA_TYPE_FLOAT_ARRAY, !.compression = 0,
                !.dims = <<3>>, !.chunks = <<2>>, !.name = Some("data"),
                !.children = <<Region(200, 30)>>]

LegacyFile ==
  [kind |-> "legacy", headerType |-> OM_HEADER_LEGACY, trailerOk |-> FALSE, size |-> 1024,
   root |-> Region(0, HeaderSize), var |-> Var2D, childAt |-> Region(-1, 0), child |-> ChildVar,
   index |-> Region(100, 64), entrySize |-> 16,
   chunk |-> <<Region(40, 10), Region(50, 6), Region(56, 8), Region(700, 4)>>, corrupt |-> {},
   nodes |-> {}]

TrailerFile ==
  [kind |-> "trailer", headerType |-> OM_HEADER_READ_TRAILER, trailerOk |-> TRUE, size |-> 1024,
   root |-> Region(800, 60), var |-> Var1D, childAt |-> Region(200, 30), child |-> ChildVar,
   index |-> Region(100, 32), entrySize |-> 16,
   chunk |-> <<Region(40, 10), Region(50, 6)>>, corrupt |-> {}, nodes |-> {}]

\* the file of the tests: dimensions [5,5], chunks [2,2], values 0 .. 24
TestFile ==
  [LegacyFile EXCEPT !.var = [Var2D EXCEPT !.dims = <<5, 5>>],
                     !.index = Region(200, 144),
                     !.chunk = <<Region(40, 10), Region(50, 10), Region(60, 6), Region(66, 10), Region(76, 10),
                                 Region(86, 6), Region(700, 6), Region(706, 6), Region(712, 4)>>]

\* a file whose root is a group and whose one child is a 1-D array
GroupVar == [NoVar EXCEPT !.name = Some("root"), !.children = <<Region(200, 30)>>]
ArrayChildVar == [Var1D EXCEPT !.children = <<>>]
GroupFile == [TrailerFile EXCEPT !.kind = "trailer", !.var = GroupVar, !.child = ArrayChildVar]

\* files whose variables form a tree two levels deep ("nodes" holds the
\* metadata records below the root):
\*     root -+- a ----- c
\*           +- (unnamed) ----- d
TreeRootVar == [NoVar EXCEPT !.name = Some("root"), !.children = <<Region(200, 30), Region(240, 30)>>]
TreeNodes(last) ==
  {[at |-> Region(200, 30), var |-> [NoVar EXCEPT !.name = Some("a"), !.children = <<Region(300, 30)>>]],
   [at |-> Region(240, 30), var |-> [NoVar EXCEPT !.children = <<Region(340, 30)>>]],
   [at |-> Region(300, 30), var |-> [ChildVar EXCEPT !.name = Some("c")]],
   [at |-> Region(340, 30), var |-> [ChildVar EXCEPT !.name = Some(last)]]}
TreeFile == [TrailerFile EXCEPT !.var = TreeRootVar, !.childAt = Region(-1, 0), !.nodes = TreeNodes("d")]
LegacyTreeFile == [LegacyFile EXCEPT !.var = TreeRootVar, !.nodes = TreeNodes("d")]
\* the same tree with the last leaf named as its uncle: two nodes of one path
SameNameTreeFile == [TreeFile EXCEPT !.nodes = TreeNodes("a")]
TreeFiles == {TreeFile, LegacyTreeFile, SameNameTreeFile}

InvalidFile == [LegacyFile EXCEPT !.kind = "invalid", !.headerType = OM_HEADER_INVALID]

UnknownFile == [LegacyFile EXCEPT !.kind = "unknown", !.headerType = 3]

BadTrailerFile == [TrailerFile EXCEPT !.kind = "badtrailer", !.trailerOk = FALSE]

\* a file whose last chunk does not decode
CorruptFile == [LegacyFile EXCEPT !.corrupt = {3}]

\* a file whose root variable is the malformed scalar
BadScalarFile == [LegacyFile EXCEPT !.var = BadScalarVar]

Files == {LegacyFile, TrailerFile, InvalidFile, UnknownFile, BadTrailerFile, CorruptFile, BadScalarFile}

\* the files OmFileReader.create() succeeds on
ValidFiles == {LegacyFile, TrailerFile, TestFile}

-----------------------------------------------------------------------------
(* The backend: FileBackend over an ArrayBuffer.  A fetch inside the file  *)
(* yields the bytes of that region; one outside it is rejected.  Every     *)
(* resumption below also lets the backend reject (an I/O error).           *)

InRange(f, offset, size) ==
  offset >= 0 /\ size >= 0 /\ offset + size <= f.size

getBytes(f, offset, size) == Region(offset, size)

count(f) == f.size

-----------------------------------------------------------------------------
(* The native metadata functions (spec.md 4.1, 4.2).                       *)

om_header_type(f, bytes) ==
  IF bytes = Region(0, HeaderSize) THEN f.headerType ELSE OM_HEADER_INVALID

om_trailer_read(f, bytes) ==
  [success |-> bytes = Region(f.size - TrailerSize, TrailerSize) /\ f.trailerOk,
   offset |-> f.root.offset, size |-> f.root.size]

\* the variable a metadata record decodes to
om_variable_init(f, bytes) ==
  IF bytes = f.root /\ f.kind \in {"legacy", "trailer", "badtrailer"} THEN f.var
  ELSE IF bytes = f.childAt THEN f.child
  ELSE IF \E n \in f.nodes : n.at = bytes THEN (CHOOSE n \in f.nodes : n.at = bytes).var
  ELSE NoVar

\* the error code and the payload pointer of the native scalar getter
om_variable_get_scalar(v) == [error |-> v.scalarError, data |-> v.scalar]

om_variable_get_children(v, index) ==
  IF index >= 0 /\ index < Len(v.children)
  THEN [success |-> TRUE, offset |-> v.children[index + 1].offset, size |-> v.children[index + 1].size]
  ELSE [success |-> FALSE, offset |-> 0, size |-> 0]

-----------------------------------------------------------------------------
(* The WASM heap, restricted to the blocks that hold metadata records: a   *)
(* block is live or free and keeps its last contents.  _malloc returns the *)
(* lowest free block.                                                      *)

Addrs == 1 .. HeapSize + Cardinality(file.nodes)

EmptyHeap == [a \in Addrs |-> [live |-> FALSE, data |-> NoBytes]]

HasFree(h) == \E a \in Addrs : ~h[a].live

malloc(h) == CHOOSE a \in Addrs : ~h[a].live /\ \A b \in Addrs : b < a => h[b].live

\* _malloc followed by HEAPU8.set(data, ptr)
Store(h, data) == [h EXCEPT ![malloc(h)] = [live |-> TRUE, data |-> data]]

free(h, ptr) == [h EXCEPT ![ptr].live = FALSE]

\* the variable record behind a native handle
VarOf(h, handle) == om_variable_init(file, h[handle].data)

-----------------------------------------------------------------------------
(* The two call records.  "init" is the initialize() call: where it is     *)
(* suspended, its headerData local, its outcome, and "snap", the values    *)
(* the four fields would have had this call not run (the fields at its     *)
(* start, with the effect of a dispose() that ran since).  "call" is the   *)
(* client's other call; it is defined with the read pipeline below.        *)

Fields == [variable |-> variable, variableData |-> variableData,
           variableDataPtr |-> variableDataPtr, offsetSize |-> offsetSize]

NoFields == [variable |-> Null, variableData |-> Null, variableDataPtr |-> Null, offsetSize |-> Null]

IdleInit == [pc |-> "idle", res |-> "none", headerData |-> NoBytes, root |-> NoBytes, snap |-> NoFields,
             calls |-> <<>>, temps |-> {}]

\* "temps" names the temporary native buffers of initialize() that are
\* allocated: the header copy, the trailer copy and the two out-parameter
\* cells
InitMalloc(i, names) == [i EXCEPT !.temps = @ \cup names]
InitFree(i, names) == [i EXCEPT !.temps = @ \ names]

\* the backend calls of initialize(), recorded in "calls" as they are issued
GetBytesCall(offset, size) == [op |-> "getBytes", offset |-> offset, size |-> size]
CountCall == [op |-> "count", offset |-> 0, size |-> 0]

\* the trailer sought at the end of the file instead of trailerSize before it
TrailerOffsetAtEnd(fileSize) == fileSize

\* "const trailerOffset = fileSize - trailerSize"
TrailerOffset(fileSize) == fileSize - TrailerSize

\* initialize() rejects: init record i settles with the error
InitFail(i, err) == [i EXCEPT !.pc = "idle", !.res = err]

\* the facade state after a successful initialize()
Initialized(l) == IF l = "Disposed" THEN "Disposed" ELSE "Initialized"

\* the facade state after dispose(): a reader that was never initialized
\* has nothing to release and stays Uninitialized
Disposed(l) == IF l = "Uninitialized" THEN "Uninitialized" ELSE "Disposed"

\* lines 148-159: copy the metadata into the heap, set the fields and free
\* the header copy
InitVariable(i, data) ==
  /\ HasFree(heap)
  /\ heap' = Store(heap, data)
  /\ variable' = Some(malloc(heap))
  /\ variableData' = Some(data)
  /\ variableDataPtr' = Some(malloc(heap))
  /\ life' = Initialized(life)
  /\ init' = InitFree([i EXCEPT !.pc = "idle", !.res = "ok"], {"header"})

\* initialize(), up to its first await: backend.getBytes(0, headerSize)
Initialize ==
  /\ init.pc = "idle"
  /\ init' = [IdleInit EXCEPT !.pc = "header", !.snap = Fields,
                              !.calls = <<GetBytesCall(0, HeaderSize)>>]
  /\ UNCHANGED <<env, file, parent, reader, heap, call, life>>

\* initialize() resumed with the header bytes, or with the backend's rejection
InitializeHeader ==
  /\ init.pc = "header"
  /\ \E ok \in BOOLEAN :
       IF ~(ok /\ InRange(file, 0, HeaderSize))
       THEN /\ init' = InitFail(init, "IOError")
            /\ UNCHANGED <<env, file, parent, reader, heap, call, life>>
       ELSE LET headerData == getBytes(file, 0, HeaderSize)
                i == InitMalloc(init, {"header"})
                headerType == om_header_type(file, headerData)
            IN  IF headerType = OM_HEADER_INVALID
                THEN /\ init' = InitFail(InitFree(i, {"header"}), "InvalidFormat")
                     /\ UNCHANGED <<env, file, parent, reader, heap, call, life>>
                ELSE IF headerType = OM_HEADER_LEGACY
                THEN /\ offsetSize' = Null
                     /\ InitVariable(i, headerData)
                     /\ UNCHANGED <<env, file, parent, call>>
                ELSE IF headerType = OM_HEADER_READ_TRAILER
                THEN /\ init' = [i EXCEPT !.pc = "count", !.headerData = headerData,
                                           !.calls = Append(@, CountCall)]
                     /\ UNCHANGED <<env, file, parent, reader, heap, call, life>>
                ELSE /\ init' = InitFail(InitFree(i, {"header"}), "InvalidFormat")
                     /\ UNCHANGED <<env, file, parent, reader, heap, call, life>>

\* resumed with backend.count(): fetch the trailer at fileSize - trailerSize
InitializeCount ==
  /\ init.pc = "count"
  /\ \E ok \in BOOLEAN :
       init' = IF ok
               THEN [init EXCEPT !.pc = "trailer",
                                 !.calls = Append(@, GetBytesCall(TrailerOffset(count(file)), TrailerSize))]
               ELSE InitFail(init, "IOError")
  /\ UNCHANGED <<env, file, parent, reader, heap, call, life>>

\* resumed with the trailer bytes: om_trailer_read, then fetch the root record
InitializeTrailer ==
  /\ init.pc = "trailer"
  /\ \E ok \in BOOLEAN :
       LET trailerOffset == TrailerOffset(count(file)) IN
       IF ~(ok /\ InRange(file, trailerOffset, TrailerSize))
       THEN /\ init' = InitFail(init, "IOError")
            /\ UNCHANGED <<env, file, parent, reader, heap, call, life>>
       ELSE LET t == om_trailer_read(file, getBytes(file, trailerOffset, TrailerSize))
                i == InitMalloc(init, {"trailer", "offset", "size"})
            IN
            IF ~t.success
            THEN /\ init' = InitFail(InitFree(i, {"header", "trailer", "offset", "size"}), "InvalidTrailer")
                 /\ UNCHANGED <<env, file, parent, reader, heap, call, life>>
            ELSE /\ offsetSize' = Some(Region(t.offset, t.size))
                 /\ init' = [InitFree(i, {"trailer", "offset", "size"}) EXCEPT
                               !.pc = "root", !.root = Region(t.offset, t.size),
                               !.calls = Append(@, GetBytesCall(t.offset, t.size))]
                 /\ UNCHANGED <<env, file, parent, variable, variableData, variableDataPtr, heap, call, life>>

\* resumed with the root metadata record
InitializeRoot ==
  /\ init.pc = "root"
  /\ \E ok \in BOOLEAN :
       IF ~(ok /\ InRange(file, init.root.offset, init.root.size))
       THEN /\ init' = InitFail(init, "IOError")
            /\ UNCHANGED <<env, file, parent, reader, heap, call, life>>
       ELSE /\ InitVariable(init, getBytes(file, init.root.offset, init.root.size))
            /\ UNCHANGED <<env, file, parent, offsetSize, call>>

\* dispose() on the heap: "if (this.variableDataPtr !== null) _free(...)"
HeapAfterDispose(h, ptr) == IF IsNull(ptr) THEN h ELSE free(h, Get(ptr))

\* dispose(): the metadata buffer is freed at once.  A read or readInto of
\* this reader that is suspended at a fetch holds a decoder whose variable
\* handle points into that buffer: "stale" records that it has been freed
\* under the call.
Dispose ==
  /\ heap' = HeapAfterDispose(heap, variableDataPtr)
  /\ variableDataPtr' = Null
  /\ variable' = Null
  /\ variableData' = Null
  /\ life' = Disposed(life)
  /\ init' = [init EXCEPT !.snap = [NoFields EXCEPT !.offsetSize = init.snap.offsetSize]]
  /\ call' = IF call.op \in {"read", "readInto"} /\ call.pc \in {"index", "data"} /\ ~IsNull(variableDataPtr)
             THEN [call EXCEPT !.stale = TRUE]
             ELSE call
  /\ UNCHANGED <<env, file, parent, offsetSize>>

-----------------------------------------------------------------------------
(* The client's call.  One record serves every operation: "op" and the     *)
(* facade state "at" which it was invoked, its position "pc" ("idle", a    *)
(* suspend point, or "done"), its outcome "res" and returned value "val".  *)
(* The remaining fields belong to read()/readInto() and getChild().        *)

DefaultTunables == [max |-> IoSizeMaxDefault, merge |-> IoSizeMergeDefault]

NoDecoder == [v |-> NoVar, readOffset |-> <<>>, readCount |-> <<>>,
              cubeOffset |-> <<>>, cubeDim |-> <<>>, merge |-> 0, max |-> 0]

IdleCall ==
  [op |-> "none", at |-> "Uninitialized", pc |-> "idle", res |-> "none", val |-> <<>>,
   dtype |-> 0, req |-> <<>>, tun |-> DefaultTunables, given |-> <<>>, output |-> <<>>,
   decoder |-> NoDecoder, outputPtr |-> <<>>, ib |-> 0, db |-> 0, fetches |-> 0,
   round |-> 1, first |-> <<>>, loc |-> NoBytes, child |-> NoFields, i |-> 0,
   stack |-> <<>>, flat |-> {}, before |-> {}, live |-> {}, mallocs |-> 0, frees |-> 0, misuse |-> FALSE,
   trace |-> <<>>, firstTrace |-> <<>>, rejected |-> Null, thrown |-> Null, settled |-> 0,
   stale |-> FALSE, uaf |-> FALSE]

Begin(op) == [IdleCall EXCEPT !.op = op, !.at = life]

\* a call that has settled: rejected with err, or resolved with val
Throw(c, err) == [c EXCEPT !.pc = "done", !.res = err]
Return(c, val) == [c EXCEPT !.pc = "done", !.res = "ok", !.val = val]

\* "if (this.variable === null) throw new Error("Reader not initialized")"
Guarded(c, val) == IF IsNull(variable) THEN Throw(c, "NotInitialized") ELSE Return(c, val)

\* the variable behind this.variable (read only where the handle is not null)
This == VarOf(heap, Get(variable))

dataType ==
  /\ call.pc = "idle"
  /\ call' = Guarded(Begin("dataType"), <<This.type>>)
  /\ UNCHANGED <<env, file, parent, reader, heap, init, life>>

compression ==
  /\ call.pc = "idle"
  /\ call' = Guarded(Begin("compression"), <<This.compression>>)
  /\ UNCHANGED <<env, file, parent, reader, heap, init, life>>

scaleFactor ==
  /\ call.pc = "idle"
  /\ call' = Guarded(Begin("scaleFactor"), <<This.scale>>)
  /\ UNCHANGED <<env, file, parent, reader, heap, init, life>>

addOffset ==
  /\ call.pc = "idle"
  /\ call' = Guarded(Begin("addOffset"), <<This.add>>)
  /\ UNCHANGED <<env, file, parent, reader, heap, init, life>>

getDimensions ==
  /\ call.pc = "idle"
  /\ call' = Guarded(Begin("getDimensions"), This.dims)
  /\ UNCHANGED <<env, file, parent, reader, heap, init, life>>

getChunkDimensions ==
  /\ call.pc = "idle"
  /\ call' = Guarded(Begin("getChunkDimensions"), This.chunks)
  /\ UNCHANGED <<env, file, parent, reader, heap, init, life>>

getName ==
  /\ call.pc = "idle"
  /\ call' = Guarded(Begin("getName"), This.name)
  /\ UNCHANGED <<env, file, parent, reader, heap, init, life>>

numberOfChildren ==
  /\ call.pc = "idle"
  /\ call' = Guarded(Begin("numberOfChildren"), <<Len(This.children)>>)
  /\ UNCHANGED <<env, file, parent, reader, heap, init, life>>

\* the types readScalar() is asked for
ScalarTypes == {DATA_TYPE_FLOAT, DATA_TYPE_FLOAT_ARRAY}

\* readScalar(): null on a type mismatch, on a native error and for a type
\* its switch does not name; the scalar otherwise
ScalarOf(v, t) ==
  IF v.type # t THEN Null
  ELSE IF om_variable_get_scalar(v).error # ERROR_OK THEN Null
  ELSE IF IsNull(om_variable_get_scalar(v).data) THEN Null
  ELSE IF t \in 1 .. 10 \ {7, 8} THEN v.scalar
  ELSE Null

readScalar ==
  /\ call.pc = "idle"
  /\ \E t \in ScalarTypes :
       call' = Guarded([Begin("readScalar") EXCEPT !.dtype = t], ScalarOf(This, t))
  /\ UNCHANGED <<env, file, parent, reader, heap, init, life>>

-----------------------------------------------------------------------------
(* Child lookup.                                                           *)

\* the child indices and locations asked for
ChildIndices == {0, 1}
ChildLocations == {Region(200, 30), Region(2000, 30)}

\* initChildFromOffsetSize(), up to its await of backend.getBytes
AwaitChild(c, loc) == [c EXCEPT !.pc = "child", !.loc = loc, !.fetches = c.fetches + 1]

getChild ==
  /\ call.pc = "idle"
  /\ \E index \in ChildIndices :
       LET c == [Begin("getChild") EXCEPT !.i = index] IN
       call' = IF IsNull(variable) THEN Throw(c, "NotInitialized")
               ELSE LET r == om_variable_get_children(This, index) IN
                    IF ~r.success THEN Return(c, Null)
                    ELSE AwaitChild(c, Region(r.offset, r.size))
  /\ UNCHANGED <<env, file, parent, reader, heap, init, life>>

initChildFromOffsetSize ==
  /\ call.pc = "idle"
  /\ \E loc \in ChildLocations :
       call' = AwaitChild(Begin("initChildFromOffsetSize"), loc)
  /\ UNCHANGED <<env, file, parent, reader, heap, init, life>>

\* the child given the buffer of the reader it was obtained from
ChildDataPtrShared(h) == IF IsNull(variableDataPtr) THEN malloc(h) ELSE Get(variableDataPtr)

\* "const childDataPtr = this.wasm._malloc(childData.length)"
ChildDataPtr(h) == malloc(h)

\* initChildFromOffsetSize() resumed with the child's bytes: the child reader
\* gets its own heap block and the location it was read from
ChildFetched ==
  /\ call.pc = "child"
  /\ \E ok \in BOOLEAN :
       IF ~(ok /\ InRange(file, call.loc.offset, call.loc.size))
       THEN /\ call' = Throw(call, "IOError")
            /\ heap' = heap
       ELSE /\ HasFree(heap)
            /\ heap' = [heap EXCEPT ![ChildDataPtr(heap)] =
                                       [live |-> TRUE, data |-> getBytes(file, call.loc.offset, call.loc.size)]]
            /\ call' = [Return(call, <<"reader">>) EXCEPT !.child =
                          [variable |-> Some(ChildDataPtr(heap)),
                           variableData |-> Some(getBytes(file, call.loc.offset, call.loc.size)),
                           variableDataPtr |-> Some(ChildDataPtr(heap)),
                           offsetSize |-> Some(call.loc)]]
  /\ UNCHANGED <<env, file, parent, reader, init, life>>

\* the caller takes the settled call's outcome; a child reader it was given
\* is disposed of (child.dispose() frees the child's block)
Settle ==
  /\ call.pc = "done"
  /\ call' = IdleCall
  /\ heap' = IF IsNull(call.child.variableDataPtr) THEN heap
             ELSE free(heap, Get(call.child.variableDataPtr))
  /\ UNCHANGED <<env, file, parent, reader, init, life>>

\* the caller turns to the child reader getChild() resolved with: from here
\* on the four fields are the child's and "parent" holds those of the reader
\* it came from
Adopt ==
  /\ call.pc = "done" /\ call.op = "getChild" /\ call.res = "ok"
  /\ ~IsNull(call.child.variable)
  /\ IsNull(parent)
  /\ parent' = Some(Fields)
  /\ variable' = call.child.variable
  /\ variableData' = call.child.variableData
  /\ variableDataPtr' = call.child.variableDataPtr
  /\ offsetSize' = call.child.offsetSize
  /\ life' = "Initialized"
  /\ call' = IdleCall
  /\ UNCHANGED <<env, file, heap, init>>

\* dispose() of the reader the child came from
ParentDispose ==
  /\ ~IsNull(parent)
  /\ heap' = HeapAfterDispose(heap, Get(parent).variableDataPtr)
  /\ parent' = Some([Get(parent) EXCEPT !.variable = Null, !.variableData = Null,
                                        !.variableDataPtr = Null])
  /\ UNCHANGED <<env, file, reader, init, call, life>>

-----------------------------------------------------------------------------
(* getFlatVariableMetadata(): the depth-first walk.  "stack" holds one     *)
(* frame per collectVariableMetadata() call that is in progress: the node  *)
(* it runs on (Null for the reader the walk was started on, else the block *)
(* of the child reader), the path it hands to its children, the loop       *)
(* counter and numChildren.  "flat" is the result map.                     *)

\* the blocks allocated in a heap
LiveBlocks(h) == {a \in Addrs : h[a].live}

\* "pathWithName.join("/")"
RECURSIVE Join(_)
Join(path) ==
  IF Len(path) = 1 THEN path[1] ELSE path[1] \o "/" \o Join(Tail(path))

\* "result[pathStr] = this.offsetSize"
Put(map, key, loc) == {e \in map : e.key # key} \cup {[key |-> key, loc |-> loc]}

\* a node's own entry: recorded when it has a name and a location
Entry(map, path, name, loc) ==
  IF ~IsNull(name) /\ ~IsNull(loc)
  THEN Put(map, Join(path \o <<Get(name)>>), Get(loc))
  ELSE map

\* the path of an unnamed node's children started afresh
ChildPathReset(path, name) == IF IsNull(name) THEN <<>> ELSE path \o <<Get(name)>>

\* "const childPath = name !== null ? [...currentPath, name] : currentPath"
ChildPath(path, name) == IF IsNull(name) THEN path ELSE path \o <<Get(name)>>

Frame(node, path, n) == [node |-> node, path |-> path, i |-> 0, n |-> n]

\* the for loop of the innermost collectVariableMetadata in heap h: on to
\* getChild(i) up to its await, or back to the caller's loop, or the end of
\* the walk
RECURSIVE CollectFrom(_, _)
CollectFrom(c, h) ==
  LET d == Len(c.stack)
      top == c.stack[d]
  IN  IF top.i >= top.n
      THEN IF d = 1 THEN Return(c, <<"map">>)
           ELSE CollectFrom([c EXCEPT !.stack = [SubSeq(c.stack, 1, d - 1) EXCEPT ![d - 1].i = @ + 1]], h)
      ELSE IF IsNull(top.node) /\ IsNull(variable) THEN Throw(c, "NotInitialized")
      ELSE LET v == VarOf(h, IF IsNull(top.node) THEN Get(variable) ELSE Get(top.node))
               r == om_variable_get_children(v, top.i)
           IN  IF ~r.success
               THEN CollectFrom([c EXCEPT !.stack[d].i = @ + 1], h)
               ELSE [AwaitChild(c, Region(r.offset, r.size)) EXCEPT
                       !.pc = "flat",
                       !.trace = Append(@, [e |-> "getBytes", offset |-> r.offset, size |-> r.size,
                                            chunks |-> <<>>])]

getFlatVariableMetadata ==
  /\ call.pc = "idle"
  /\ LET c == [Begin("getFlatVariableMetadata") EXCEPT !.before = LiveBlocks(heap)] IN
     call' = IF IsNull(variable) THEN Throw(c, "NotInitialized")
             ELSE CollectFrom([c EXCEPT !.flat = Entry({}, <<>>, This.name, offsetSize),
                                        !.stack = <<Frame(Null, ChildPath(<<>>, This.name),
                                                          Len(This.children))>>], heap)
  /\ UNCHANGED <<env, file, parent, reader, heap, init, life>>

\* getChild() resumed with a child's bytes: the child reader is built in a
\* block of its own (no one disposes of it), and collectVariableMetadata
\* runs on it: its entry, then its own loop
FlatFetched ==
  /\ call.pc = "flat"
  /\ \E ok \in BOOLEAN :
       IF ~(ok /\ InRange(file, call.loc.offset, call.loc.size))
       THEN /\ call' = Throw(call, "IOError")
            /\ heap' = heap
       ELSE LET bytes == getBytes(file, call.loc.offset, call.loc.size)
                childVar == om_variable_init(file, bytes)
                top == call.stack[Len(call.stack)]
            IN  /\ HasFree(heap)
                /\ heap' = Store(heap, bytes)
                /\ call' = CollectFrom(
                             [call EXCEPT !.flat = Entry(@, top.path, childVar.name, Some(call.loc)),
                                          !.stack = Append(@, Frame(Some(malloc(heap)),
                                                                    ChildPath(top.path, childVar.name),
                                                                    Len(childVar.children)))],
                             Store(heap, bytes))
  /\ UNCHANGED <<env, file, parent, reader, init, life>>

-----------------------------------------------------------------------------
(* Coordinates: row-major positions in a shape, counted from 0.            *)

RECURSIVE Linearize(_, _)
Linearize(coord, shape) ==
  IF coord = <<>> THEN 0
  ELSE LET n == Len(coord) IN
       Linearize(SubSeq(coord, 1, n - 1), SubSeq(shape, 1, n - 1)) * shape[n] + coord[n]

RECURSIVE Unlinearize(_, _)
Unlinearize(i, shape) ==
  IF shape = <<>> THEN <<>>
  ELSE LET n == Len(shape) IN
       Append(Unlinearize(i \div shape[n], SubSeq(shape, 1, n - 1)), i % shape[n])

\* every position of a shape, in row-major order
Positions(shape) == [j \in 1 .. Product(shape) |-> Unlinearize(j - 1, shape)]

-----------------------------------------------------------------------------
(* The native decoder: the read planner and the chunk decoder of spec.md   *)
(* 4.3 and 4.4.                                                            *)

\* the number of chunks along each dimension
ChunkGrid(v) == [d \in 1 .. Len(v.dims) |-> (v.dims[d] + v.chunks[d] - 1) \div v.chunks[d]]

\* om_decoder_init: the request is checked against the variable
om_decoder_init(v, nDims, readOffset, readCount, cubeOffset, cubeDim, merge, max) ==
  IF \/ nDims # Len(v.dims)
     \/ \E d \in 1 .. nDims :
          \/ readOffset[d] < 0 \/ readCount[d] < 0
          \/ readOffset[d] + readCount[d] > v.dims[d]
          \/ cubeOffset[d] + readCount[d] > cubeDim[d]
  THEN [error |-> 1, decoder |-> NoDecoder]
  ELSE [error |-> ERROR_OK,
        decoder |-> [v |-> v, readOffset |-> readOffset, readCount |-> readCount,
                     cubeOffset |-> cubeOffset, cubeDim |-> cubeDim, merge |-> merge, max |-> max]]

\* chunk k (row-major, from 0) intersects the request in every dimension
Overlaps(dec, k) ==
  LET c == Unlinearize(k, ChunkGrid(dec.v)) IN
  \A d \in 1 .. Len(dec.v.dims) :
    /\ c[d] * dec.v.chunks[d] < dec.readOffset[d] + dec.readCount[d]
    /\ (c[d] + 1) * dec.v.chunks[d] > dec.readOffset[d]

\* the chunks the request needs, in row-major order
RequiredChunks(dec) ==
  SelectSeq([j \in 1 .. Product(ChunkGrid(dec.v)) |-> j - 1], LAMBDA k : Overlaps(dec, k))

IndexSpan(f, k) == [offset |-> f.index.offset + k * f.entrySize, size |-> f.entrySize, chunks |-> <<k>>]

DataSpan(f, k) == [offset |-> f.chunk[k + 1].offset, size |-> f.chunk[k + 1].size, chunks |-> <<k>>]

\* the merge rule: the next span joins the current batch when the gap is at
\* most the merge threshold and the batch stays within the maximum size
Merges(b, s, merge, max) ==
  /\ s.offset - (b.offset + b.size) <= merge
  /\ b.size + s.size <= max

RECURSIVE Coalesce(_, _, _, _)
Coalesce(spans, acc, merge, max) ==
  IF spans = <<>> THEN acc
  ELSE LET s == Head(spans)
           n == Len(acc)
       IN  IF n > 0 /\ Merges(acc[n], s, merge, max)
           THEN Coalesce(Tail(spans),
                         [acc EXCEPT ![n] = [offset |-> acc[n].offset,
                                             size |-> s.offset + s.size - acc[n].offset,
                                             chunks |-> acc[n].chunks \o s.chunks]],
                         merge, max)
           ELSE Coalesce(Tail(spans), Append(acc, s), merge, max)

\* the index-read batches of a request
IndexBatches(f, dec) ==
  LET ks == RequiredChunks(dec) IN
  Coalesce([j \in 1 .. Len(ks) |-> IndexSpan(f, ks[j])], <<>>, dec.merge, dec.max)

\* the data-read batches decoded from index batch ib
DataBatches(f, dec, ib) ==
  LET ks == IndexBatches(f, dec)[ib].chunks IN
  Coalesce([j \in 1 .. Len(ks) |-> DataSpan(f, ks[j])], <<>>, dec.merge, dec.max)

om_decoder_next_index_read(f, dec, ib) == ib < Len(IndexBatches(f, dec))

om_decoder_next_data_read(f, dec, ib, db) == db < Len(DataBatches(f, dec, ib))

\* the value the file stores at a global coordinate
FileValue(v, g) == Linearize(g, v.dims)

\* the global coordinate of local position p of chunk k
Global(dec, k, p) ==
  LET c == Unlinearize(k, ChunkGrid(dec.v)) IN
  [d \in 1 .. Len(p) |-> c[d] * dec.v.chunks[d] + p[d]]

\* g lies inside the variable and inside the requested ranges
Requested(dec, g) ==
  \A d \in 1 .. Len(g) :
    /\ g[d] < dec.v.dims[d]
    /\ g[d] >= dec.readOffset[d]
    /\ g[d] < dec.readOffset[d] + dec.readCount[d]

\* where g goes in the output: (g - requestStart), by the cube's strides
Destination(dec, g) ==
  Linearize([d \in 1 .. Len(g) |-> g[d] - dec.readOffset[d] + dec.cubeOffset[d]], dec.cubeDim) + 1

\* the elements of chunk k that are surfaced, as (destination, value) pairs
Surfaced(dec, k) ==
  LET ps == Positions(dec.v.chunks) IN
  {<<Destination(dec, Global(dec, k, ps[j])), FileValue(dec.v, Global(dec, k, ps[j]))>> :
     j \in {j \in 1 .. Len(ps) : Requested(dec, Global(dec, k, ps[j]))}}

\* om_decoder_decode_chunks: every chunk of the batch is decoded into place
om_decoder_decode_chunks(f, dec, chunks, out) ==
  IF \E j \in 1 .. Len(chunks) : chunks[j] \in f.corrupt
  THEN [success |-> FALSE, out |-> out]
  ELSE LET w == UNION {Surfaced(dec, chunks[j]) : j \in 1 .. Len(chunks)} IN
       [success |-> TRUE,
        out |-> [i \in 1 .. Len(out) |->
                   IF \E e \in w : e[1] = i THEN Some((CHOOSE e \in w : e[1] = i)[2]) ELSE out[i]]]

-----------------------------------------------------------------------------
(* read() and readInto().  A TypedArray is a sequence of numbers; the      *)
(* native output buffer is a sequence of cells, each unwritten (null) or   *)
(* holding a number.  _malloc does not clear memory: an unwritten cell     *)
(* copied out reads as any value of Garbage.                               *)

Garbage == {-1, -2}

\* the array a caller passes to readInto(), and a new TypedArray(n)
Fresh(n) == [i \in 1 .. n |-> 99]
Zeroes(n) == [i \in 1 .. n |-> 0]

\* dimRanges.map((range) => range.end - range.start)
OutDims(req) == [i \in 1 .. Len(req) |-> req[i].end - req[i].start]

\* the output sized by the first extent only
TotalSizeFirstOnly(req) == IF req = <<>> THEN 1 ELSE OutDims(req)[1]

\* outDims.reduce((a, b) => a * b, 1)
TotalSize(req) == Product(OutDims(req))

\* the range test of readInto()'s loop
InvalidRange(r, extent) == r.start < 0 \/ r.end > extent \/ r.start >= r.end

\* the comparison off by one: a buffer one element short is accepted
TooSmallOffByOne(output, req) == Len(output) + 1 < TotalSize(req)

\* "if (output.length < totalElements)"
TooSmall(output, req) == Len(output) < TotalSize(req)

\* the read offsets left at 0 instead of the ranges' starts
ReadOffsetZero(req) == [i \in 1 .. Len(req) |-> 0]

\* the read counts one short of the ranges' extents
ReadCountShort(req) == [i \in 1 .. Len(req) |-> req[i].end - req[i].start - 1]

\* the read offsets written in reverse dimension order
ReadOffsetReversed(req) == [i \in 1 .. Len(req) |-> req[Len(req) - i + 1].start]

\* the four request arrays handed to om_decoder_init
ReadOffset(req) == [i \in 1 .. Len(req) |-> req[i].start]
ReadCount(req) == OutDims(req)
IntoCubeOffset(req) == [i \in 1 .. Len(req) |-> 0]
IntoCubeDimension(req) == OutDims(req)

\* the output allocated one element too long
NewOutputOneMore(dtype, totalSize) ==
  IF dtype \notin ReadableTypes THEN [error |-> "UnsupportedDataType", array |-> <<>>]
  ELSE IF totalSize < 0 THEN [error |-> "RangeError", array |-> <<>>]
  ELSE [error |-> "none", array |-> Zeroes(totalSize + 1)]

\* read()'s switch: the output array for the data type, or what is thrown
NewOutput(dtype, totalSize) ==
  IF dtype \notin ReadableTypes THEN [error |-> "UnsupportedDataType", array |-> <<>>]
  ELSE IF totalSize < 0 THEN [error |-> "RangeError", array |-> <<>>]
  ELSE [error |-> "none", array |-> Zeroes(totalSize)]

\* the arrays copyToTypedArray can leave in the target
RECURSIVE CopyToTypedArray(_)
CopyToTypedArray(cells) ==
  IF cells = <<>> THEN {<<>>}
  ELSE {<<x>> \o t : x \in (IF IsNull(Head(cells)) THEN Garbage ELSE {Get(Head(cells))}),
                     t \in CopyToTypedArray(Tail(cells))}

\* The native buffers of a call: "live" names those allocated and not yet
\* freed, "mallocs" and "frees" count the calls, and "misuse" records a
\* _free of a buffer that is not live or a _malloc over a live one.
Malloc(c, names) ==
  [c EXCEPT !.live = @ \cup names, !.mallocs = @ + Cardinality(names),
            !.misuse = @ \/ (names \cap c.live # {})]

Free(c, names) ==
  [c EXCEPT !.live = @ \ names, !.frees = @ + Cardinality(names),
            !.misuse = @ \/ ~(names \subseteq c.live)]

\* readInto()'s four request arrays and decode()'s four buffers
RequestArrays == {"readOffset", "readCount", "intoCubeOffset", "intoCubeDimension"}
DecodeBuffers == {"output", "chunkBuffer", "indexRead", "error"}

\* the finally blocks, innermost first
FinallyDataBlock(c) == Free(c, {"dataBlock"})
\* the index block's finally without the free of indexDataPtr
FinallyIndexBlockLeaky(c) == Free(c, {"dataRead"})
FinallyIndexBlock(c) == Free(c, {"dataRead", "indexData"})
FinallyDecode(c) == Free(c, DecodeBuffers)
FinallyDecoder(c) == Free(c, {"decoder"})
\* readInto()'s finally freeing the first two request arrays only
FinallyReadIntoTwo(c) == Free(c, {"readOffset", "readCount"})
FinallyReadInto(c) == Free(c, RequestArrays)

\* an exception, or the return, leaving decode() and then readInto()
LeaveDecode(c) == FinallyReadInto(FinallyDecoder(FinallyDecode(c)))

\* "trace" is what the call has done at the backend and the decoder, in
\* order: a getBytes issued, or a data batch decoded
GetBytesOf(b) == [e |-> "getBytes", offset |-> b.offset, size |-> b.size, chunks |-> <<>>]
DecodeOf(b) == [e |-> "decode", offset |-> b.offset, size |-> b.size, chunks |-> b.chunks]

\* the errors a backend may reject a fetch with, and FileBackend's own
BackendErrors == {"NetworkError", "Timeout"}
Replies == {"bytes"} \cup BackendErrors
RejectionOf(f, b, reply) ==
  IF reply \in BackendErrors THEN Some(reply)
  ELSE IF ~InRange(f, b.offset, b.size) THEN Some("InvalidRange")
  ELSE Null

\* the error rethrown as a new Error object
RethrowWrapped(c, e) == [Throw(c, "IOError") EXCEPT !.thrown = Some(<<"Error", e>>)]

\* an await of backend.getBytes rejected with e: nothing catches it, the
\* call rejects with e
Rethrow(c, e) == [Throw(c, "IOError") EXCEPT !.thrown = Some(e)]

\* the decoded elements written into the caller's array as well
StoreDecodedInOutput(c, out) ==
  [c EXCEPT !.outputPtr = out,
            !.output = [i \in 1 .. Len(c.output) |->
                          IF i <= Len(out) /\ ~IsNull(out[i]) THEN Get(out[i]) ELSE c.output[i]]]

\* om_decoder_decode_chunks writes into the native buffer at outputPtr
StoreDecoded(c, out) == [c EXCEPT !.outputPtr = out]

\* the outer loop run as an "if": only the first index batch is fetched
NextIndexReadOnce(c) ==
  IF c.ib = 0 /\ om_decoder_next_index_read(file, c.decoder, c.ib)
  THEN [c EXCEPT !.ib = c.ib + 1, !.db = 0, !.pc = "index", !.fetches = c.fetches + 1,
                 !.trace = Append(@, GetBytesOf(IndexBatches(file, c.decoder)[c.ib + 1]))]
  ELSE [c EXCEPT !.pc = "copy"]

\* decode()'s outer loop: the next index batch is fetched, or the loop ends
NextIndexRead(c) ==
  IF om_decoder_next_index_read(file, c.decoder, c.ib)
  THEN [c EXCEPT !.ib = c.ib + 1, !.db = 0, !.pc = "index", !.fetches = c.fetches + 1,
                 !.trace = Append(@, GetBytesOf(IndexBatches(file, c.decoder)[c.ib + 1]))]
  ELSE [c EXCEPT !.pc = "copy"]

\* the inner loop abandoned: the next index batch is fetched at once
NextDataReadSkipped(c) == NextIndexRead(FinallyIndexBlock(c))

\* decode()'s inner loop: the next data batch is fetched, or the loop ends
NextDataRead(c) ==
  IF om_decoder_next_data_read(file, c.decoder, c.ib, c.db)
  THEN [c EXCEPT !.db = c.db + 1, !.pc = "data", !.fetches = c.fetches + 1,
                 !.trace = Append(@, GetBytesOf(DataBatches(file, c.decoder, c.ib)[c.db + 1]))]
  ELSE NextIndexRead(FinallyIndexBlock(c))

\* the index-read cursor of the previous call kept instead of a new one
decodeStaleCursor(c) ==
  NextIndexRead(Malloc([c EXCEPT !.outputPtr = [i \in 1 .. Len(c.output) |-> Null],
                                 !.ib = IF c.round = 2 THEN 1 ELSE 0, !.db = 0],
                       DecodeBuffers))

\* decode(), up to its first await
decode(c) ==
  NextIndexRead(Malloc([c EXCEPT !.outputPtr = [i \in 1 .. Len(c.output) |-> Null], !.ib = 0, !.db = 0],
                       DecodeBuffers))

\* the maximum read size handed over as the merge threshold
IoSizeMergeAsMax(tun) == tun.max

\* the two tunables as readInto() hands them to om_decoder_init
IoSizeMerge(tun) == tun.merge
IoSizeMax(tun) == tun.max

\* readInto(), up to its first await or its throw
readIntoEnter(c) ==
  IF IsNull(variable) THEN Throw(c, "NotInitialized")
  ELSE IF This.type # c.dtype THEN Throw(c, "InvalidDataType")
  ELSE IF Len(This.dims) # Len(c.req) THEN Throw(c, "DimensionMismatch")
  ELSE IF TooSmall(c.output, c.req) THEN Throw(c, "BufferTooSmall")
  ELSE LET a == Malloc(c, RequestArrays) IN
       IF \E i \in 1 .. Len(c.req) : InvalidRange(c.req[i], This.dims[i])
       THEN Throw(FinallyReadInto(a), "RangeOutOfBounds")
       ELSE LET d == Malloc(a, {"decoder"})
                r == om_decoder_init(This, Len(c.req), ReadOffset(c.req), ReadCount(c.req),
                                     IntoCubeOffset(c.req), IntoCubeDimension(c.req),
                                     IoSizeMerge(c.tun), IoSizeMax(c.tun))
            IN  IF r.error # ERROR_OK
                THEN Throw(FinallyReadInto(FinallyDecoder(d)), "DecodeError")
                ELSE decode([d EXCEPT !.decoder = r.decoder])

\* read(), up to its first await or its throw
readEnter(c) ==
  IF IsNull(variable) THEN Throw(c, "NotInitialized")
  ELSE IF This.type # c.dtype THEN Throw(c, "InvalidDataType")
  ELSE LET o == NewOutput(c.dtype, TotalSize(c.req)) IN
       IF o.error # "none" THEN Throw(c, o.error)
       ELSE readIntoEnter([c EXCEPT !.output = o.array])

\* the call goes on as c; when decode()'s loops have ended, the native output
\* is copied to the array and the call resolves
Continue(c) ==
  IF c.pc = "copy"
  THEN \E a \in CopyToTypedArray(c.outputPtr) :
         call' = Return(LeaveDecode([c EXCEPT !.output = a]), IF c.op = "read" THEN Some(a) ELSE Null)
  ELSE call' = c

\* the data types and tunables asked for
DataTypes == {DATA_TYPE_FLOAT_ARRAY, DATA_TYPE_DOUBLE_ARRAY}
\* (the defaults; a maximum below the span of one chunk; and a maximum of
\* exactly two index entries with no gap allowed)
Tunables == {DefaultTunables, [max |-> 8, merge |-> 0], [max |-> 32, merge |-> 0]}

read(requests, tunables) ==
  /\ call.pc = "idle"
  /\ \E dtype \in DataTypes, req \in requests, tun \in tunables :
       Continue(readEnter([Begin("read") EXCEPT !.dtype = dtype, !.req = req, !.tun = tun]))
  /\ UNCHANGED <<env, file, parent, reader, heap, init, life>>

readInto(requests, tunables) ==
  /\ call.pc = "idle"
  /\ \E dtype \in DataTypes, req \in requests, tun \in tunables, n \in 0 .. MaxBufLen :
       Continue(readIntoEnter([Begin("readInto") EXCEPT !.dtype = dtype, !.req = req, !.tun = tun,
                                                        !.given = Fresh(n), !.output = Fresh(n)]))
  /\ UNCHANGED <<env, file, parent, reader, heap, init, life>>

\* the caller repeats a read that resolved, keeping its first result
readAgain ==
  /\ call.pc = "done" /\ call.op = "read" /\ call.res = "ok" /\ call.round = 1
  /\ Continue(readEnter([Begin("read") EXCEPT !.dtype = call.dtype, !.req = call.req, !.tun = call.tun,
                                              !.round = 2, !.first = call.output,
                                              !.firstTrace = call.trace]))
  /\ UNCHANGED <<env, file, parent, reader, heap, init, life>>

\* after a read that resolved, the caller asks for the same ranges with
\* readInto() and an array of exactly the requested element count, keeping
\* what read() returned
readIntoAfterRead ==
  /\ call.pc = "done" /\ call.op = "read" /\ call.res = "ok" /\ call.round = 1
  /\ Continue(readIntoEnter([Begin("readInto") EXCEPT
                               !.dtype = call.dtype, !.req = call.req, !.tun = call.tun,
                               !.given = Fresh(TotalSize(call.req)),
                               !.output = Fresh(TotalSize(call.req)),
                               !.round = 2, !.first = call.output,
                                              !.firstTrace = call.trace]))
  /\ UNCHANGED <<env, file, parent, reader, heap, init, life>>

\* the awaited getBytes has settled: it resolved or it rejected
Resumed(c) == [c EXCEPT !.settled = @ + 1]

\* the native decoder functions called on resumption read the variable
\* through the decoder: after the buffer was freed this is a use after free
\* ("uaf"), and what they read is the old record or whatever the block holds
\* by then, so the call goes on as planned, or fails in the decoder, or
\* decodes garbage
NativeCalls(c) == [c EXCEPT !.uaf = @ \/ c.stale]

\* a batch decoded through a dangling variable handle: its cells hold g
DecodedGarbage(dec, chunks, out, g) ==
  LET w == UNION {Surfaced(dec, chunks[j]) : j \in 1 .. Len(chunks)} IN
  [i \in 1 .. Len(out) |-> IF \E e \in w : e[1] = i THEN Some(g) ELSE out[i]]

\* decode() resumed with the bytes of an index batch
IndexFetched ==
  /\ call.pc = "index"
  /\ \E reply \in Replies :
       LET b == IndexBatches(file, call.decoder)[call.ib]
           rejection == RejectionOf(file, b, reply)
       IN
       IF ~IsNull(rejection)
       THEN call' = Rethrow(LeaveDecode([Resumed(call) EXCEPT !.rejected = rejection]), Get(rejection))
       ELSE LET c == NativeCalls(Malloc(Resumed(call), {"indexData", "dataRead"})) IN
            \/ Continue(NextDataRead(c))
            \/ /\ call.stale
               /\ call' = Throw(LeaveDecode(FinallyIndexBlock(c)), "DecodeError")
  /\ UNCHANGED <<env, file, parent, reader, heap, init, life>>

\* decode() resumed with the bytes of a data batch: its chunks are decoded
DataFetched ==
  /\ call.pc = "data"
  /\ \E reply \in Replies :
       LET b == DataBatches(file, call.decoder, call.ib)[call.db]
           rejection == RejectionOf(file, b, reply)
       IN
       IF ~IsNull(rejection)
       THEN call' = Rethrow(LeaveDecode(FinallyIndexBlock([Resumed(call) EXCEPT !.rejected = rejection])),
                            Get(rejection))
       ELSE LET c == NativeCalls(Malloc([Resumed(call) EXCEPT !.trace = Append(@, DecodeOf(b))], {"dataBlock"}))
                r == om_decoder_decode_chunks(file, call.decoder, b.chunks, call.outputPtr)
            IN  \/ IF ~r.success
                   THEN call' = Throw(LeaveDecode(FinallyIndexBlock(FinallyDataBlock(c))), "DecodeError")
                   ELSE Continue(NextDataRead(FinallyDataBlock(StoreDecoded(c, r.out))))
                \/ /\ call.stale
                   /\ \/ call' = Throw(LeaveDecode(FinallyIndexBlock(FinallyDataBlock(c))), "DecodeError")
                      \/ \E g \in Garbage :
                           Continue(NextDataRead(FinallyDataBlock(
                             StoreDecoded(c, DecodedGarbage(call.decoder, b.chunks, call.outputPtr, g)))))
  /\ UNCHANGED <<env, file, parent, reader, heap, init, life>>

-----------------------------------------------------------------------------
(* The requests.                                                           *)

\* requested coordinates reach Slack beyond the extent of Var2D and Var1D
MaxExtent == Var2D.dims[1]

Coordinates == (0 - Slack) .. (MaxExtent + Slack)

Ranges == [start : Coordinates, end : Coordinates]

\* every request of one or two ranges
Requests == {<<a>> : a \in Ranges} \cup {<<a, b>> : a \in Ranges, b \in Ranges}

\* the full-extent requests of the two variables
FullRequests == {<<[start |-> 0, end |-> 3]>>, <<[start |-> 0, end |-> 3], [start |-> 0, end |-> 3]>>}

-----------------------------------------------------------------------------
(* The backends' getBytes(offset, size) over a source of L bytes.  An      *)
(* outcome is a rejection or the length of the array resolved with.        *)

Resolved(n) == [res |-> "ok", len |-> n]
Rejected == [res |-> "error", len |-> 0]

\* the length of slice(begin, end) of L bytes (Uint8Array, Blob and
\* ArrayBuffer alike): both ends are clamped to the source
SliceLength(L, begin, end) == Max(0, Min(end, L) - Min(begin, L))

\* FileBackend.getBytes over a Uint8Array or a File: the slice as it comes
FileBackendSlice(L, offset, size) == Resolved(SliceLength(L, offset, offset + size))

\* FileBackend.getBytes over a path: fileHandle.read() reads what the file
\* has from the offset on, and less than size is an error
FileBackendPath(L, offset, size) ==
  LET bytesRead == Min(size, Max(0, L - offset))
  IN  IF bytesRead # size THEN Rejected ELSE Resolved(size)

\* FileBackend.getBytes over an ArrayBuffer
FileBackendBuffer(L, offset, size) ==
  IF offset < 0 \/ offset > L \/ size < 0 \/ offset + size > L
  THEN Rejected
  ELSE Resolved(SliceLength(L, offset, offset + size))

\* the response to "Range: bytes=first-last" of a server that honours
\* ranges: a range that ends before it starts is no range and the whole
\* resource is served, one that starts past the end is not satisfiable, and
\* one that runs past the end is cut at the end
RangeResponse(L, first, last) ==
  IF last < first THEN [ok |-> TRUE, len |-> L]
  ELSE IF first >= L THEN [ok |-> FALSE, len |-> 0]
  ELSE [ok |-> TRUE, len |-> Min(last, L - 1) - first + 1]

\* FetchBackend.getBytes: the body of an ok response, whatever its length
FetchBackendGetBytes(L, offset, size) ==
  LET response == RangeResponse(L, offset, offset + size - 1)
  IN  IF ~response.ok THEN Rejected ELSE Resolved(response.len)

\* S3Backend.getBytes: the body of the GetObject response (a range already
\* in the cache resolves with the array cached for it)
S3BackendGetBytes(L, offset, size) ==
  LET response == RangeResponse(L, offset, offset + size - 1)
  IN  IF ~response.ok THEN Rejected ELSE Resolved(response.len)

\* MemoryHttpBackend.getBytes over the loaded file
MemoryHttpBackendGetBytes(L, offset, size) ==
  IF offset < 0 \/ offset + size > L
  THEN Rejected
  ELSE Resolved(SliceLength(L, offset, offset + size))

\* the offsets and sizes asked for reach past the end of the source
Offsets == 0 .. SourceLength + 2
Sizes == 0 .. SourceLength + 1

NoBackendCall == [backend |-> "none", offset |-> 0, size |-> 0, res |-> "none", len |-> 0]

BackendCall(backend, offset, size, outcome) ==
  [backend |-> backend, offset |-> offset, size |-> size, res |-> outcome.res, len |-> outcome.len]

FileBackendGetBytes ==
  /\ \E offset \in Offsets, size \in Sizes :
       \/ \E source \in {"Uint8Array", "File"} :
            backendCall' = BackendCall("FileBackend(" \o source \o ")", offset, size,
                                       FileBackendSlice(SourceLength, offset, size))
       \/ backendCall' = BackendCall("FileBackend(path)", offset, size,
                                     FileBackendPath(SourceLength, offset, size))
       \/ backendCall' = BackendCall("FileBackend(ArrayBuffer)", offset, size,
                                     FileBackendBuffer(SourceLength, offset, size))
  /\ UNCHANGED <<file, parent, reader, heap, init, call, life,
                 wasmModuleRaw, wasmModuleWrapped, wasmCalls, wasmResolved, aside>>

HttpBackendGetBytes ==
  /\ \E offset \in Offsets, size \in Sizes :
       \/ backendCall' = BackendCall("FetchBackend", offset, size,
                                     FetchBackendGetBytes(SourceLength, offset, size))
       \/ backendCall' = BackendCall("S3Backend", offset, size,
                                     S3BackendGetBytes(SourceLength, offset, size))
       \/ backendCall' = BackendCall("MemoryHttpBackend", offset, size,
                                     MemoryHttpBackendGetBytes(SourceLength, offset, size))
  /\ UNCHANGED <<file, parent, reader, heap, init, call, life,
                 wasmModuleRaw, wasmModuleWrapped, wasmCalls, wasmResolved, aside>>

-----------------------------------------------------------------------------
(* The WASM module of wasm.ts: the two module-level variables, and callers *)
(* that call initWasm() and getWasmModule().  The raw module is the one    *)
(* object the import yields; a wrapped module is a fresh object, named by  *)
(* a number, each time createWrappedModule runs.                           *)

Callers == 1 .. NumCallers

IdleWasmCall == [op |-> "none", pc |-> "idle", res |-> "none", val |-> Null, since |-> {},
                 imported |-> FALSE]

\* createWrappedModule(wasmModuleRaw): a new object
createWrappedModule == IF IsNull(wasmModuleWrapped) THEN 1 ELSE Get(wasmModuleWrapped) + 1

\* the end of initWasm() in caller c: wrap, assign, return
WrapAndReturn(c) ==
  /\ wasmModuleWrapped' = Some(createWrappedModule)
  /\ wasmCalls' = [wasmCalls EXCEPT ![c].pc = "done", ![c].res = "ok",
                                    ![c].val = Some(createWrappedModule)]
  /\ wasmResolved' = wasmResolved \cup {createWrappedModule}

\* initWasm() up to its first await, or its early return
initWasm ==
  /\ \E c \in Callers :
       /\ wasmCalls[c].pc \in {"idle", "done"}
       /\ LET w == [IdleWasmCall EXCEPT !.op = "initWasm", !.since = wasmResolved] IN
          IF ~IsNull(wasmModuleWrapped)
          THEN /\ wasmCalls' = [wasmCalls EXCEPT ![c] = [w EXCEPT !.pc = "done", !.res = "ok",
                                                                  !.val = wasmModuleWrapped]]
               /\ wasmResolved' = wasmResolved \cup {Get(wasmModuleWrapped)}
          ELSE /\ wasmCalls' = [wasmCalls EXCEPT ![c] = [w EXCEPT !.pc = "import", !.imported = TRUE]]
               /\ wasmResolved' = wasmResolved
  /\ UNCHANGED <<file, parent, reader, heap, init, call, life,
                 wasmModuleRaw, wasmModuleWrapped, backendCall, aside>>

\* the import settled: a failure is rethrown wrapped; else the raw module is
\* assigned, and initWasm() goes on at once if the runtime has run, or
\* registers its callback and waits
ImportSettled ==
  /\ \E c \in Callers :
       /\ wasmCalls[c].pc = "import"
       /\ \/ /\ IsNull(wasmModuleRaw)
             /\ wasmCalls' = [wasmCalls EXCEPT ![c].pc = "done", ![c].res = "Failed to initialize WASM module"]
             /\ UNCHANGED <<wasmModuleRaw, wasmModuleWrapped, wasmResolved>>
          \/ \E calledRun \in BOOLEAN :
               LET raw == IF IsNull(wasmModuleRaw)
                          THEN [calledRun |-> calledRun, onRuntimeInitialized |-> Null]
                          ELSE Get(wasmModuleRaw)
               IN  IF raw.calledRun
                   THEN /\ wasmModuleRaw' = Some(raw)
                        /\ WrapAndReturn(c)
                   ELSE /\ wasmModuleRaw' = Some([raw EXCEPT !.onRuntimeInitialized = Some(c)])
                        /\ wasmCalls' = [wasmCalls EXCEPT ![c].pc = "runtime"]
                        /\ UNCHANGED <<wasmModuleWrapped, wasmResolved>>
  /\ UNCHANGED <<file, parent, reader, heap, init, call, life, backendCall, aside>>

\* the Emscripten runtime finishes its start-up and calls the callback that
\* is registered: the caller that registered it goes on
RuntimeInitialized ==
  /\ ~IsNull(wasmModuleRaw)
  /\ ~Get(wasmModuleRaw).calledRun
  /\ wasmModuleRaw' = Some([Get(wasmModuleRaw) EXCEPT !.calledRun = TRUE])
  /\ IF IsNull(Get(wasmModuleRaw).onRuntimeInitialized)
     THEN UNCHANGED <<wasmModuleWrapped, wasmCalls, wasmResolved>>
     ELSE WrapAndReturn(Get(Get(wasmModuleRaw).onRuntimeInitialized))
  /\ UNCHANGED <<file, parent, reader, heap, init, call, life, backendCall, aside>>

getWasmModule ==
  /\ \E c \in Callers :
       /\ wasmCalls[c].pc \in {"idle", "done"}
       /\ LET w == [IdleWasmCall EXCEPT !.op = "getWasmModule", !.since = wasmResolved, !.pc = "done"] IN
          wasmCalls' = [wasmCalls EXCEPT ![c] =
                          IF IsNull(wasmModuleWrapped)
                          THEN [w EXCEPT !.res = "WASM module not initialized"]
                          ELSE [w EXCEPT !.res = "ok", !.val = wasmModuleWrapped]]
  /\ UNCHANGED <<file, parent, reader, heap, init, call, life,
                 wasmModuleRaw, wasmModuleWrapped, wasmResolved, backendCall, aside>>

-----------------------------------------------------------------------------
(* Several read()/readInto() calls in flight on one reader.  The pointers  *)
(* of a call are locals of its async function: "ptr" maps the name of each *)
(* buffer the call holds to its address.  The blocks are in wasmHeap, each *)
(* with the caller that allocated it (0 when free) and, for the native     *)
(* output, its cells.  A call is run by the operators of the single call   *)
(* above on what memory holds at its own pointers.                         *)

\* the buffers of one call, in the order readInto() and decode() allocate them
BufferOrder ==
  <<"readOffset", "readCount", "intoCubeOffset", "intoCubeDimension", "decoder",
    "output", "chunkBuffer", "indexRead", "error", "indexData", "dataRead", "dataBlock">>

WasmAddrs == 1 .. NumCallers * Len(BufferOrder)

EmptyWasmHeap == [a \in WasmAddrs |-> [owner |-> 0, cells |-> <<>>]]

IdleRead == [c |-> IdleCall, ptr |-> <<>>, foreign |-> FALSE]

\* an allocator handing out the first block, live or not
WasmMallocFirst(h) == CHOOSE a \in WasmAddrs : \A b \in WasmAddrs : a <= b

\* this.wasm._malloc: a block that is not live
WasmMalloc(h) == CHOOSE a \in WasmAddrs : h[a].owner = 0 /\ \A b \in WasmAddrs : b < a => h[b].owner # 0

\* the _malloc calls of caller k for the buffers "names", from BufferOrder[j] on
RECURSIVE Allocate(_, _, _, _)
Allocate(m, k, names, j) ==
  IF j > Len(BufferOrder) THEN m
  ELSE IF BufferOrder[j] \notin names THEN Allocate(m, k, names, j + 1)
  ELSE LET a == WasmMalloc(m.h) IN
       Allocate([h |-> [m.h EXCEPT ![a] = [owner |-> k, cells |-> <<>>]],
                 ptr |-> [n \in DOMAIN m.ptr \cup {BufferOrder[j]} |->
                            IF n = BufferOrder[j] THEN a ELSE m.ptr[n]]],
                k, names, j + 1)

\* the _free calls for the buffers "names" through the pointers held
Release(m, names) ==
  [h |-> [a \in WasmAddrs |-> IF \E n \in names : m.ptr[n] = a THEN [m.h[a] EXCEPT !.owner = 0] ELSE m.h[a]],
   ptr |-> [n \in DOMAIN m.ptr \ names |-> m.ptr[n]]]

\* the call of caller k as it finds memory when it runs: its native output
\* holds what the block at its outputPtr holds now
View(k) ==
  IF "output" \in reads[k].c.live
  THEN [reads[k].c EXCEPT !.outputPtr = wasmHeap[reads[k].ptr["output"]].cells]
  ELSE reads[k].c

\* the call goes on as c: when decode()'s loops have ended the native output
\* is copied to the array and the call resolves
Outcomes(c) ==
  IF c.pc = "copy"
  THEN {Return(LeaveDecode([c EXCEPT !.output = a]), IF c.op = "read" THEN Some(a) ELSE Null) :
          a \in CopyToTypedArray(c.outputPtr)}
  ELSE {c}

\* decode() resumed with the reply to the fetch of an index batch
IndexResumed(c, reply) ==
  LET b == IndexBatches(file, c.decoder)[c.ib]
      rejection == RejectionOf(file, b, reply)
  IN  IF ~IsNull(rejection)
      THEN {Rethrow(LeaveDecode([Resumed(c) EXCEPT !.rejected = rejection]), Get(rejection))}
      ELSE Outcomes(NextDataRead(Malloc(Resumed(c), {"indexData", "dataRead"})))

\* decode() resumed with the reply to the fetch of a data batch
DataResumed(c, reply) ==
  LET b == DataBatches(file, c.decoder, c.ib)[c.db]
      rejection == RejectionOf(file, b, reply)
  IN  IF ~IsNull(rejection)
      THEN {Rethrow(LeaveDecode(FinallyIndexBlock([Resumed(c) EXCEPT !.rejected = rejection])),
                    Get(rejection))}
      ELSE LET d == Malloc([Resumed(c) EXCEPT !.trace = Append(@, DecodeOf(b))], {"dataBlock"})
               r == om_decoder_decode_chunks(file, c.decoder, b.chunks, c.outputPtr)
           IN  IF ~r.success
               THEN {Throw(LeaveDecode(FinallyIndexBlock(FinallyDataBlock(d))), "DecodeError")}
               ELSE Outcomes(NextDataRead(FinallyDataBlock(StoreDecoded(d, r.out))))

\* caller k's call has run from reads[k].c to c: the buffers it no longer
\* holds were freed and those it newly holds were allocated (a buffer
\* allocated and freed without an await in between takes a free block and
\* gives it back), and its native output was written through its pointer.
\* "foreign" records a _free or a write at a block of another caller.
Ran(k, c) ==
  LET r == reads[k]
      gone == r.c.live \ c.live
      new == c.live \ r.c.live
      held == r.c.live \cap c.live
      m == Allocate(Release([h |-> wasmHeap, ptr |-> r.ptr], gone), k, new, 1)
      touched == {r.ptr[n] : n \in gone \cup (held \cap {"output"})}
  IN  /\ reads' = [reads EXCEPT ![k] = [c |-> c, ptr |-> m.ptr,
                                        foreign |-> r.foreign \/ \E a \in touched : wasmHeap[a].owner # k]]
      /\ wasmHeap' = IF "output" \in c.live
                     THEN [m.h EXCEPT ![m.ptr["output"]].cells = c.outputPtr]
                     ELSE m.h

\* the requests the callers make of the [3,3] variable: all of it, one
\* chunk, a square over the four chunks, and a range past the end
PairRequests ==
  {<<[start |-> 0, end |-> 3], [start |-> 0, end |-> 3]>>,
   <<[start |-> 0, end |-> 2], [start |-> 0, end |-> 2]>>,
   <<[start |-> 1, end |-> 3], [start |-> 1, end |-> 3]>>,
   <<[start |-> 0, end |-> 4], [start |-> 0, end |-> 1]>>}

\* caller k calls read() while other calls may be suspended
readBy(k) ==
  /\ reads[k].c.pc = "idle"
  /\ \E req \in PairRequests :
       \E c \in Outcomes(readEnter([Begin("read") EXCEPT !.dtype = DATA_TYPE_FLOAT_ARRAY, !.req = req])) :
         Ran(k, c)
  /\ UNCHANGED <<facade, wasm, backendCall, mhb, s3>>

\* caller k calls readInto() with an array of the requested element count
readIntoBy(k) ==
  /\ reads[k].c.pc = "idle"
  /\ \E req \in PairRequests :
       \E c \in Outcomes(readIntoEnter([Begin("readInto") EXCEPT
                                          !.dtype = DATA_TYPE_FLOAT_ARRAY, !.req = req,
                                          !.given = Fresh(TotalSize(req)),
                                          !.output = Fresh(TotalSize(req))])) :
         Ran(k, c)
  /\ UNCHANGED <<facade, wasm, backendCall, mhb, s3>>

\* the index fetch caller k's call awaits has settled
IndexFetchedBy(k) ==
  /\ reads[k].c.pc = "index"
  /\ \E reply \in Replies : \E c \in IndexResumed(View(k), reply) : Ran(k, c)
  /\ UNCHANGED <<facade, wasm, backendCall, mhb, s3>>

\* the data fetch caller k's call awaits has settled
DataFetchedBy(k) ==
  /\ reads[k].c.pc = "data"
  /\ \E reply \in Replies : \E c \in DataResumed(View(k), reply) : Ran(k, c)
  /\ UNCHANGED <<facade, wasm, backendCall, mhb, s3>>

-----------------------------------------------------------------------------
(* MemoryHttpBackend (src/unnamed/part_002).  A promise is named by what   *)
(* it settles with: a value at hand, load n or count n.  "loads" and       *)
(* "counts" hold the position of each async body started by loadFile() and *)
(* count(); the data a load stores is tagged with the load.  "remote" is   *)
(* the Content-Length of the resource.                                     *)

LoadIds == 1 .. MaxLoads

\* options.maxFileSize
MaxFileSize == SourceLength

NoPromise == [kind |-> "none", id |-> 0]
ValuePromise == [kind |-> "value", id |-> 0]

IdleMemCall ==
  [op |-> "none", pc |-> "idle", on |-> NoPromise, offset |-> 0, size |-> 0, res |-> "none", len |-> 0, by |-> 0]

\* "pending", "resolved" or "rejected"
PromiseState(m, p) ==
  LET at == IF p.kind = "load" THEN m.loads[p.id].pc
            ELSE IF p.kind = "count" THEN m.counts[p.id]
            ELSE "resolved"
  IN  IF at \in {"resolved", "rejected"} THEN at ELSE "pending"

\* the first id not yet used in a table of async bodies
Unused(pcs) == {n \in LoadIds : pcs[n] = "unused"}
NextId(pcs) == CHOOSE n \in Unused(pcs) : \A k \in Unused(pcs) : n <= k

\* count() up to its return: the size at hand, the HEAD request in flight,
\* or a new HEAD request
MemCount(m) ==
  IF ~IsNull(m.fileSize) THEN [m |-> m, p |-> ValuePromise]
  ELSE IF ~IsNull(m.countPromise) THEN [m |-> m, p |-> [kind |-> "count", id |-> Get(m.countPromise)]]
  ELSE LET n == NextId(m.counts) IN
       [m |-> [m EXCEPT !.counts[n] = "head", !.countPromise = Some(n)],
        p |-> [kind |-> "count", id |-> n]]

CanCount(m) == ~IsNull(m.fileSize) \/ ~IsNull(m.countPromise) \/ Unused(m.counts) # {}

\* loadFile() up to its return: nothing to do, the load in flight, or a new
\* load, which runs up to its await of count()
LoadFile(m) ==
  IF ~IsNull(m.fileData) THEN [m |-> m, p |-> ValuePromise]
  ELSE IF ~IsNull(m.loadPromise) THEN [m |-> m, p |-> [kind |-> "load", id |-> Get(m.loadPromise)]]
  ELSE LET n == NextId([k \in LoadIds |-> m.loads[k].pc])
           r == MemCount(m)
       IN  [m |-> [r.m EXCEPT !.loads[n] = [pc |-> "count", on |-> r.p], !.loadPromise = Some(n)],
            p |-> [kind |-> "load", id |-> n]]

CanLoad(m) ==
  \/ ~IsNull(m.fileData) \/ ~IsNull(m.loadPromise)
  \/ (\E n \in LoadIds : m.loads[n].pc = "unused") /\ CanCount(m)

\* the constructor: the fields, and loadFile() started in the background
NewMemoryHttpBackend(remote) ==
  LoadFile([remote |-> remote, fileSize |-> Null, fileData |-> Null, loadPromise |-> Null,
            countPromise |-> Null,
            loads |-> [n \in LoadIds |-> [pc |-> "unused", on |-> NoPromise]],
            counts |-> [n \in LoadIds |-> "unused"],
            calls |-> [c \in Callers |-> IdleMemCall], reloads |-> 0]).m

\* "if (this.fileSize > this.maxFileSize)"
OverMaxFileSize(m) == Get(m.fileSize) > MaxFileSize

\* the HEAD request of a count() has settled: an error response or a missing
\* header is thrown; else fileSize is assigned and then checked
HeadResponded ==
  /\ \E n \in LoadIds :
       /\ mhb.counts[n] = "head"
       /\ \/ mhb' = [mhb EXCEPT !.counts[n] = "rejected", !.countPromise = Null]
          \/ LET m == [mhb EXCEPT !.fileSize = Some(mhb.remote)] IN
             mhb' = IF OverMaxFileSize(m)
                    THEN [m EXCEPT !.counts[n] = "rejected", !.countPromise = Null]
                    ELSE [m EXCEPT !.counts[n] = "resolved"]
  /\ UNCHANGED <<facade, wasm, backendCall, reads, wasmHeap, s3>>

\* a load resumed after its await of count(): the fetch of the whole file is
\* issued, or the rejection is caught and rethrown
LoadCounted ==
  /\ \E n \in LoadIds :
       /\ mhb.loads[n].pc = "count"
       /\ PromiseState(mhb, mhb.loads[n].on) # "pending"
       /\ mhb' = IF PromiseState(mhb, mhb.loads[n].on) = "rejected"
                 THEN [mhb EXCEPT !.loads[n].pc = "rejected", !.loadPromise = Null]
                 ELSE [mhb EXCEPT !.loads[n].pc = "fetch"]
  /\ UNCHANGED <<facade, wasm, backendCall, reads, wasmHeap, s3>>

\* the response to the fetch of the whole file: its body is read next, or an
\* error response is thrown
FetchResponded ==
  /\ \E n \in LoadIds :
       /\ mhb.loads[n].pc = "fetch"
       /\ \/ mhb' = [mhb EXCEPT !.loads[n].pc = "body"]
          \/ mhb' = [mhb EXCEPT !.loads[n].pc = "rejected", !.loadPromise = Null]
  /\ UNCHANGED <<facade, wasm, backendCall, reads, wasmHeap, s3>>

\* the body has been read (or the read failed): fileData is assigned
BodyRead ==
  /\ \E n \in LoadIds :
       /\ mhb.loads[n].pc = "body"
       /\ \/ mhb' = [mhb EXCEPT !.loads[n].pc = "resolved",
                                !.fileData = Some([by |-> n, len |-> mhb.remote])]
          \/ mhb' = [mhb EXCEPT !.loads[n].pc = "rejected", !.loadPromise = Null]
  /\ UNCHANGED <<facade, wasm, backendCall, reads, wasmHeap, s3>>

\* the ranges asked of the loaded file: inside it, and past its end
MemRanges == {<<0, SourceLength>>, <<1, SourceLength + 1>>}

\* getBytes() from "Bounds check" on
Serve(m, w) ==
  LET out == MemoryHttpBackendGetBytes(Get(m.fileData).len, w.offset, w.size) IN
  [w EXCEPT !.pc = "done", !.res = IF out.res = "ok" THEN "ok" ELSE "Error in getBytes",
            !.len = out.len, !.by = Get(m.fileData).by]

\* a caller calls loadFile()
MemoryHttpLoadFile ==
  /\ \E c \in Callers :
       /\ mhb.calls[c].pc \in {"idle", "done"}
       /\ CanLoad(mhb)
       /\ LET r == LoadFile(mhb) IN
          mhb' = [r.m EXCEPT !.calls[c] = [IdleMemCall EXCEPT !.op = "loadFile", !.pc = "wait", !.on = r.p]]
  /\ UNCHANGED <<facade, wasm, backendCall, reads, wasmHeap, s3>>

\* a caller calls reload()
MemoryHttpReload ==
  /\ \E c \in Callers :
       /\ mhb.calls[c].pc \in {"idle", "done"}
       /\ LET m == [mhb EXCEPT !.fileData = Null, !.loadPromise = Null, !.reloads = @ + 1] IN
          /\ CanLoad(m)
          /\ LET r == LoadFile(m) IN
             mhb' = [r.m EXCEPT !.calls[c] = [IdleMemCall EXCEPT !.op = "reload", !.pc = "wait", !.on = r.p]]
  /\ UNCHANGED <<facade, wasm, backendCall, reads, wasmHeap, s3>>

\* a caller calls count()
MemoryHttpCount ==
  /\ \E c \in Callers :
       /\ mhb.calls[c].pc \in {"idle", "done"}
       /\ CanCount(mhb)
       /\ LET r == MemCount(mhb) IN
          mhb' = [r.m EXCEPT !.calls[c] = [IdleMemCall EXCEPT !.op = "count", !.pc = "wait", !.on = r.p]]
  /\ UNCHANGED <<facade, wasm, backendCall, reads, wasmHeap, s3>>

\* a caller calls getBytes(): served from memory, or after loadFile()
MemoryHttpGetBytes ==
  /\ \E c \in Callers, range \in MemRanges :
       /\ mhb.calls[c].pc \in {"idle", "done"}
       /\ LET w == [IdleMemCall EXCEPT !.op = "getBytes", !.offset = range[1], !.size = range[2]] IN
          IF ~IsNull(mhb.fileData)
          THEN mhb' = [mhb EXCEPT !.calls[c] = Serve(mhb, w)]
          ELSE /\ CanLoad(mhb)
               /\ LET r == LoadFile(mhb) IN
                  mhb' = [r.m EXCEPT !.calls[c] = [w EXCEPT !.pc = "wait", !.on = r.p]]
  /\ UNCHANGED <<facade, wasm, backendCall, reads, wasmHeap, s3>>

\* the promise a caller awaits has settled and the caller goes on
MemoryHttpResumed ==
  /\ \E c \in Callers :
       LET w == mhb.calls[c]
           state == PromiseState(mhb, w.on)
       IN  /\ w.pc = "wait"
           /\ state # "pending"
           /\ mhb' = [mhb EXCEPT !.calls[c] =
                IF w.op = "count"
                THEN IF state = "rejected" THEN [w EXCEPT !.pc = "done", !.res = "Failed to get file size"]
                     ELSE [w EXCEPT !.pc = "done", !.res = "ok", !.len = Get(mhb.fileSize)]
                ELSE IF w.op = "getBytes"
                THEN IF state = "rejected" \/ IsNull(mhb.fileData)
                     THEN [w EXCEPT !.pc = "done", !.res = "Error in getBytes"]
                     ELSE Serve(mhb, w)
                ELSE IF state = "rejected" THEN [w EXCEPT !.pc = "done", !.res = "Failed to load file"]
                     ELSE [w EXCEPT !.pc = "done", !.res = "ok"]]
  /\ UNCHANGED <<facade, wasm, backendCall, reads, wasmHeap, s3>>

-----------------------------------------------------------------------------
(* S3Backend (src/unnamed/part_001).  The range cache is a set of entries  *)
(* [key, len], one for a key: the key is the pair the string               *)
(* `${offset}-${size}` is made of and len the byte length of the array.    *)

\* options.cacheMaxSize
CacheMaxSize == SourceLength - 1

IdleS3Call == [pc |-> "idle", offset |-> 0, size |-> 0, res |-> "none", len |-> 0]

\* the constructor
NewS3Backend(cacheEnabled) ==
  [cacheEnabled |-> cacheEnabled, cachedRanges |-> {}, cacheSize |-> 0,
   calls |-> [c \in Callers |-> IdleS3Call], sent |-> 0]

\* the byte lengths of the cached arrays, added up
RECURSIVE ByteLengths(_)
ByteLengths(map) ==
  IF map = {} THEN 0
  ELSE LET e == CHOOSE e \in map : TRUE IN e.len + ByteLengths(map \ {e})

\* Map.has, Map.get and Map.set
Has(map, key) == \E e \in map : e.key = key
Cached(map, key) == CHOOSE e \in map : e.key = key
MapSet(map, key, len) == {e \in map : e.key # key} \cup {[key |-> key, len |-> len]}

\* cacheData(key, data): the cache is emptied first when the new array would
\* take cacheSize over cacheMaxSize
cacheData(s, key, len) ==
  LET evict == s.cacheSize + len > CacheMaxSize
      map == IF evict THEN {} ELSE s.cachedRanges
      size == IF evict THEN s.cacheSize - ByteLengths(s.cachedRanges) ELSE s.cacheSize
  IN  [s EXCEPT !.cachedRanges = MapSet(map, key, len), !.cacheSize = size + len]

\* the ranges asked for: three inside the object and the whole of it
S3Ranges == {<<0, 1>>, <<0, 2>>, <<1, 2>>, <<0, SourceLength>>}

\* getBytes() up to its return from the cache or its await of the GetObject
\* command
S3GetBytes ==
  /\ \E c \in Callers, range \in S3Ranges :
       /\ s3.calls[c].pc \in {"idle", "done"}
       /\ LET w == [IdleS3Call EXCEPT !.offset = range[1], !.size = range[2]] IN
          IF s3.cacheEnabled /\ Has(s3.cachedRanges, range)
          THEN s3' = [s3 EXCEPT !.calls[c] = [w EXCEPT !.pc = "done", !.res = "ok",
                                                       !.len = Cached(s3.cachedRanges, range).len]]
          ELSE /\ s3.sent < MaxSends
               /\ s3' = [s3 EXCEPT !.calls[c] = [w EXCEPT !.pc = "send"], !.sent = @ + 1]
  /\ UNCHANGED <<facade, wasm, backendCall, reads, wasmHeap, mhb>>

\* the GetObject command has settled: it failed, or its body is read next
S3Responded ==
  /\ \E c \in Callers :
       LET w == s3.calls[c]
           out == S3BackendGetBytes(SourceLength, w.offset, w.size)
       IN  /\ w.pc = "send"
           /\ \/ s3' = [s3 EXCEPT !.calls[c] = [w EXCEPT !.pc = "done", !.res = "Failed to get bytes from S3"]]
              \/ /\ out.res = "ok"
                 /\ s3' = [s3 EXCEPT !.calls[c] = [w EXCEPT !.pc = "body", !.len = out.len]]
  /\ UNCHANGED <<facade, wasm, backendCall, reads, wasmHeap, mhb>>

\* the body has been read: the array is cached and returned
S3BodyRead ==
  /\ \E c \in Callers :
       LET w == s3.calls[c] IN
       /\ w.pc = "body"
       /\ \/ s3' = [s3 EXCEPT !.calls[c] = [w EXCEPT !.pc = "done", !.res = "Failed to get bytes from S3",
                                                     !.len = 0]]
          \/ LET s == IF s3.cacheEnabled THEN cacheData(s3, <<w.offset, w.size>>, w.len) ELSE s3 IN
             s3' = [s EXCEPT !.calls[c] = [w EXCEPT !.pc = "done", !.res = "ok"]]
  /\ UNCHANGED <<facade, wasm, backendCall, reads, wasmHeap, mhb>>

clearCache ==
  /\ s3' = [s3 EXCEPT !.cachedRanges = {}, !.cacheSize = 0]
  /\ UNCHANGED <<facade, wasm, backendCall, reads, wasmHeap, mhb>>

-----------------------------------------------------------------------------
\* the module state of wasm.ts, the backend call and the callers at the start
InitModules ==
  /\ wasmModuleRaw = Null
  /\ wasmModuleWrapped = Null
  /\ wasmCalls = [c \in Callers |-> IdleWasmCall]
  /\ wasmResolved = {}
  /\ backendCall = NoBackendCall
  /\ reads = [k \in Callers |-> IdleRead]
  /\ wasmHeap = EmptyWasmHeap

\* the state outside the reader at the start
InitEnv ==
  /\ InitModules
  /\ mhb = NewMemoryHttpBackend(SourceLength)
  /\ s3 = NewS3Backend(TRUE)

-----------------------------------------------------------------------------
(* Spec: a reader constructed over any of the files, with initialize(),    *)
(* dispose() and the client's calls interleaved at their suspend points.   *)

Init ==
  /\ InitEnv
  /\ file \in Files
  /\ parent = Null
  /\ variable = Null
  /\ variableData = Null
  /\ variableDataPtr = Null
  /\ offsetSize = Null
  /\ heap = EmptyHeap
  /\ init = IdleInit
  /\ call = IdleCall
  /\ life = "Uninitialized"

Next ==
  \/ Initialize \/ InitializeHeader \/ InitializeCount \/ InitializeTrailer \/ InitializeRoot
  \/ Dispose
  \/ dataType \/ compression \/ scaleFactor \/ addOffset
  \/ getDimensions \/ getChunkDimensions \/ getName \/ numberOfChildren \/ readScalar
  \/ getChild \/ initChildFromOffsetSize \/ ChildFetched
  \/ getFlatVariableMetadata \/ FlatFetched
  \/ read(FullRequests, {DefaultTunables}) \/ readInto(FullRequests, {DefaultTunables}) \/ readAgain \/ IndexFetched \/ DataFetched
  \/ Settle

Spec == Init /\ [][Next]_vars

(* SpecRead: a reader as OmFileReader.create() returns it over a valid     *)
(* file, and every request of Requests.                                    *)

InitRead ==
  /\ InitEnv
  /\ file \in ValidFiles
  /\ parent = Null
  /\ heap = Store(EmptyHeap, file.root)
  /\ variable = Some(malloc(EmptyHeap))
  /\ variableData = Some(file.root)
  /\ variableDataPtr = Some(malloc(EmptyHeap))
  /\ offsetSize = IF file.headerType = OM_HEADER_LEGACY THEN Null ELSE Some(file.root)
  /\ init = [IdleInit EXCEPT !.res = "ok"]
  /\ call = IdleCall
  /\ life = "Initialized"

NextRead ==
  \/ read(Requests, Tunables) \/ readInto(Requests, Tunables) \/ readAgain \/ readIntoAfterRead
  \/ IndexFetched \/ DataFetched
  \/ Settle

SpecRead == InitRead /\ [][NextRead]_vars

(* SpecChild: a reader created over the group file, the child reader its   *)
(* getChild() resolves with, and both of them disposed at any point.       *)

\* the requests made of the 1-D child
ChildRequests == {<<a>> : a \in Ranges}

InitChild ==
  /\ InitEnv
  /\ file = GroupFile
  /\ parent = Null
  /\ heap = Store(EmptyHeap, file.root)
  /\ variable = Some(malloc(EmptyHeap))
  /\ variableData = Some(file.root)
  /\ variableDataPtr = Some(malloc(EmptyHeap))
  /\ offsetSize = Some(file.root)
  /\ init = [IdleInit EXCEPT !.res = "ok"]
  /\ call = IdleCall
  /\ life = "Initialized"

NextChild ==
  \/ getChild \/ ChildFetched \/ Adopt
  \/ ParentDispose \/ Dispose
  \/ dataType \/ getDimensions \/ getName
  \/ read(ChildRequests, Tunables) \/ readInto(ChildRequests, Tunables)
  \/ IndexFetched \/ DataFetched
  \/ Settle

SpecChild == InitChild /\ [][NextChild]_vars

(* SpecTree: a reader created over a file whose variables form a tree,    *)
(* walked by getFlatVariableMetadata() and disposed at any point.          *)

InitTree ==
  /\ InitEnv
  /\ file \in TreeFiles
  /\ parent = Null
  /\ heap = Store(EmptyHeap, file.root)
  /\ variable = Some(malloc(EmptyHeap))
  /\ variableData = Some(file.root)
  /\ variableDataPtr = Some(malloc(EmptyHeap))
  /\ offsetSize = IF file.headerType = OM_HEADER_LEGACY THEN Null ELSE Some(file.root)
  /\ init = [IdleInit EXCEPT !.res = "ok"]
  /\ call = IdleCall
  /\ life = "Initialized"

NextTree ==
  \/ getFlatVariableMetadata \/ FlatFetched
  \/ getName \/ numberOfChildren
  \/ Dispose
  \/ Settle

SpecTree == InitTree /\ [][NextTree]_vars

(* SpecBackend: getBytes calls on each backend over a source of           *)
(* SourceLength bytes, within and past its end.                            *)

InitBackend == Init /\ file = LegacyFile

NextBackend == FileBackendGetBytes \/ HttpBackendGetBytes

SpecBackend == InitBackend /\ [][NextBackend]_vars

(* SpecWasm: callers of initWasm() and getWasmModule(), their calls        *)
(* interleaved at the awaits.                                              *)

InitWasm == Init /\ file = LegacyFile

NextWasm == initWasm \/ ImportSettled \/ RuntimeInitialized \/ getWasmModule

SpecWasm == InitWasm /\ [][NextWasm]_vars

\* SpecWasm with its scheduling: a pending import settles and the runtime,
\* once the module is loaded, finishes its start-up
WasmFairness ==
  /\ \A c \in Callers : WF_vars(ImportSettled /\ wasmCalls[c].pc = "import" /\ wasmCalls'[c].pc # "import")
  /\ WF_vars(RuntimeInitialized)

SpecWasmLive == SpecWasm /\ WasmFairness

(* SpecPair: a reader as create() returns it over the legacy file, and one *)
(* read() or readInto() of each caller, interleaved at their awaits.       *)

InitPair == InitRead /\ file = LegacyFile

NextPair ==
  \E k \in Callers : readBy(k) \/ readIntoBy(k) \/ IndexFetchedBy(k) \/ DataFetchedBy(k)

SpecPair == InitPair /\ [][NextPair]_vars

(* SpecMemory: a MemoryHttpBackend from its constructor on, over a         *)
(* resource within maxFileSize or one byte over it, with its callers.      *)

\* the reader not yet initialized and nothing else in use
InitIdle ==
  /\ file = LegacyFile
  /\ parent = Null
  /\ variable = Null
  /\ variableData = Null
  /\ variableDataPtr = Null
  /\ offsetSize = Null
  /\ heap = EmptyHeap
  /\ init = IdleInit
  /\ call = IdleCall
  /\ life = "Uninitialized"
  /\ InitModules

InitMemory ==
  /\ InitIdle
  /\ mhb \in {NewMemoryHttpBackend(remote) : remote \in {SourceLength, SourceLength + 1}}
  /\ s3 = NewS3Backend(TRUE)

NextMemory ==
  \/ MemoryHttpLoadFile \/ MemoryHttpReload \/ MemoryHttpCount \/ MemoryHttpGetBytes \/ MemoryHttpResumed
  \/ HeadResponded \/ LoadCounted \/ FetchResponded \/ BodyRead

SpecMemory == InitMemory /\ [][NextMemory]_vars

(* SpecS3: an S3Backend with its cache enabled or not, and its callers.    *)

InitS3 ==
  /\ InitIdle
  /\ mhb = NewMemoryHttpBackend(SourceLength)
  /\ s3 \in {NewS3Backend(cacheEnabled) : cacheEnabled \in BOOLEAN}

NextS3 == S3GetBytes \/ S3Responded \/ S3BodyRead \/ clearCache

SpecS3 == InitS3 /\ [][NextS3]_vars

-----------------------------------------------------------------------------
(* The claims.                                                             *)

\* the public operations other than initialize() and dispose()
PublicOps ==
  {"dataType", "compression", "scaleFactor", "addOffset", "getDimensions", "getChunkDimensions",
   "getName", "numberOfChildren", "getChild", "initChildFromOffsetSize", "readScalar", "read",
   "readInto", "getFlatVariableMetadata"}

\* the operations that read the variable
Accessors == PublicOps \ {"initChildFromOffsetSize"}

InitErrors == {"InvalidFormat", "InvalidTrailer", "IOError"}

\* C1: a public operation invoked on a reader that is Uninitialized or
\* Disposed fails with NotInitialized: it is never left suspended at a
\* backend fetch and never returns a value.
C1_NotInitializedOutsideInitialized ==
  (call.op \in PublicOps /\ call.at \in {"Uninitialized", "Disposed"})
    => (call.pc = "done" /\ call.res = "NotInitialized")

\* C2: Disposed is absorbing: once dispose() has been called the variable
\* handle is null in every later state, and every accessor invoked from
\* then on fails with NotInitialized.
C2_DisposedAbsorbing ==
  /\ life = "Disposed" => IsNull(variable)
  /\ (call.op \in Accessors /\ call.at = "Disposed")
       => (call.pc = "done" /\ call.res = "NotInitialized")

\* C3: when initialize() has failed, the four fields hold the values they
\* would have had without the call: no partial state is retained.
C3_FailedInitializeKeepsNothing ==
  (init.pc = "idle" /\ init.res \in InitErrors) => Fields = init.snap

\* the request of the call: its rank and data type match the variable
RankMatches == Len(call.req) = Len(This.dims)
TypeMatches == call.dtype = This.type

\* some range of the call starts below 0, ends beyond the extent, or is inverted
SomeRangeOutOfBounds ==
  \E i \in 1 .. Len(call.req) :
    call.req[i].start < 0 \/ call.req[i].end > This.dims[i] \/ call.req[i].start > call.req[i].end

\* every range of the call lies within the extent and is not inverted
AllRangesWithin ==
  \A i \in 1 .. Len(call.req) :
    0 <= call.req[i].start /\ call.req[i].start <= call.req[i].end /\ call.req[i].end <= This.dims[i]

SomeRangeEmpty == \E i \in 1 .. Len(call.req) : call.req[i].start = call.req[i].end

\* the product of (end - start) over the ranges of the call
RECURSIVE ExtentProduct(_)
ExtentProduct(req) ==
  IF req = <<>> THEN 1 ELSE (Head(req).end - Head(req).start) * ExtentProduct(Tail(req))

\* C4: on an Initialized reader a read or readInto whose number of ranges
\* differs from the variable's number of dimensions fails with
\* DimensionMismatch, whatever the ranges and the buffer.
C4_WrongRankIsDimensionMismatch ==
  (call.op \in {"read", "readInto"} /\ call.at = "Initialized" /\ TypeMatches /\ ~RankMatches)
    => (call.pc = "done" /\ call.res = "DimensionMismatch")

\* C5: on an Initialized reader a read or readInto of the right rank with a
\* range that starts below 0, ends beyond the extent or is inverted fails
\* with RangeOutOfBounds, whatever the product of the extents and whatever
\* the length of the caller's buffer.
C5_BadRangeIsRangeOutOfBounds ==
  (call.op \in {"read", "readInto"} /\ call.at = "Initialized" /\ TypeMatches /\ RankMatches
     /\ SomeRangeOutOfBounds)
    => (call.pc = "done" /\ call.res = "RangeOutOfBounds")

\* C6: on an Initialized reader a read of the right rank whose ranges are
\* within bounds and of which one is empty (start = end) resolves with an
\* array of zero elements and issues no backend fetch.
C6_EmptyRangeIsNoOp ==
  (call.op = "read" /\ call.at = "Initialized" /\ TypeMatches /\ RankMatches
     /\ AllRangesWithin /\ SomeRangeEmpty)
    => (call.pc = "done" /\ call.res = "ok" /\ Len(call.output) = 0 /\ call.fetches = 0)

\* a request the spec calls valid: right type and rank, every range non-empty
\* and within the variable's extent
ValidRequest ==
  /\ TypeMatches /\ RankMatches
  /\ \A i \in 1 .. Len(call.req) :
       0 <= call.req[i].start /\ call.req[i].start < call.req[i].end /\ call.req[i].end <= This.dims[i]

\* C7: a readInto that reaches the buffer check (Initialized reader, data
\* type and rank of the variable) with a buffer of fewer elements than the
\* product of the requested extents fails with BufferTooSmall, without any
\* backend fetch and with the caller's buffer as it was given.
C7_UndersizedBufferIsBufferTooSmall ==
  (call.op = "readInto" /\ call.at = "Initialized" /\ TypeMatches /\ RankMatches
     /\ Len(call.given) < ExtentProduct(call.req))
    => (call.pc = "done" /\ call.res = "BufferTooSmall" /\ call.fetches = 0 /\ call.output = call.given)

\* C7 witness: a 3-element buffer given for a 4-element request is rejected
C7_Witness ==
  /\ call.op = "readInto" /\ call.pc = "done" /\ call.res = "BufferTooSmall"
  /\ Len(call.given) = 3 /\ ExtentProduct(call.req) = 4 /\ ValidRequest

\* C8: a read of a valid request on an Initialized reader that has settled
\* has either resolved or failed on a backend fetch, and when it resolved its
\* array has the product of (end - start) elements; for the full extent that
\* is the product of the variable's dimensions.
C8_ReadLengthIsExtentProduct ==
  (call.op = "read" /\ call.at = "Initialized" /\ call.pc = "done" /\ ValidRequest)
    => /\ call.res \in {"ok", "IOError"}
       /\ call.res = "ok" => Len(call.output) = ExtentProduct(call.req)

\* C8 witness: the full-extent read of the 3 x 3 variable resolved with 9 elements
C8_Witness ==
  /\ call.op = "read" /\ call.pc = "done" /\ call.res = "ok"
  /\ This.dims = <<3, 3>>
  /\ call.req = <<[start |-> 0, end |-> 3], [start |-> 0, end |-> 3]>>
  /\ Len(call.output) = 9

\* the global coordinate of the element at row-major position i (from 1) of
\* the requested hyper-rectangle
CoordinateOf(req, i) ==
  LET p == Unlinearize(i - 1, [d \in 1 .. Len(req) |-> req[d].end - req[d].start])
  IN  [d \in 1 .. Len(req) |-> req[d].start + p[d]]

\* C9: when a read of a valid request has resolved, the array has one
\* element for every coordinate g of the requested hyper-rectangle, and the
\* element at row-major position (g - requestStart) is the file's value at
\* g: every position is written and nothing from outside the ranges is.
C9_OutputIsRequestedSlice ==
  (call.op = "read" /\ call.pc = "done" /\ call.res = "ok" /\ ValidRequest)
    => /\ Len(call.output) = ExtentProduct(call.req)
       /\ \A i \in 1 .. Len(call.output) :
            call.output[i] = FileValue(This, CoordinateOf(call.req, i))

\* C9 witness: dimensions [5,5], chunks [2,2], read([0:2],[0:2]) = [0,1,5,6]
C9_Witness ==
  /\ call.op = "read" /\ call.pc = "done" /\ call.res = "ok"
  /\ This.dims = <<5, 5>> /\ This.chunks = <<2, 2>>
  /\ call.req = <<[start |-> 0, end |-> 2], [start |-> 0, end |-> 2]>>
  /\ call.output = <<0, 1, 5, 6>>

\* C10: a read repeated with the same type and ranges resolves with the same
\* contents as the first, and no step of a read or readInto, resolving or
\* failing, changes variable, variableData, variableDataPtr or offsetSize.
C10_ReadIdempotentAndPure ==
  /\ [](call.op = "read" /\ call.round = 2 /\ call.pc = "done" /\ call.res = "ok"
          => call.output = call.first)
  /\ [][(call' # call /\ call'.op \in {"read", "readInto"}) => UNCHANGED reader]_vars

\* C10 witness: the second of two reads of an in-bounds request has resolved
C10_Witness ==
  /\ call.op = "read" /\ call.round = 2 /\ call.pc = "done" /\ call.res = "ok"
  /\ ValidRequest /\ Len(call.first) > 1 /\ call.fetches > 0

\* C11: a readInto of a valid request into an array of exactly the requested
\* element count, issued after a read of the same ranges and tunables on the
\* same reader, leaves that array holding what the read returned.
C11_ReadIntoEqualsRead ==
  (call.op = "readInto" /\ call.round = 2 /\ call.pc = "done" /\ call.res = "ok")
    => /\ Len(call.given) = ExtentProduct(call.req)
       /\ call.output = call.first

\* C11 witness: read and then readInto of [0:2] x [1:3] over two batches
C11_Witness ==
  /\ call.op = "readInto" /\ call.round = 2 /\ call.pc = "done" /\ call.res = "ok"
  /\ ValidRequest /\ Len(call.req) = 2 /\ Len(call.output) = 4 /\ call.fetches > 2
  /\ call.output # call.given

RootBlocks == {a \in Addrs : heap[a].live /\ heap[a].data = file.root}

\* C13: over any sequence of initialize() and dispose() calls the metadata
\* buffer of every successful initialize() is released exactly once: when
\* the reader has been disposed and no initialize() is in flight, no
\* metadata buffer the reader allocated is still live.
C13_MetadataReleasedExactlyOnce ==
  (init.pc = "idle" /\ IsNull(variableDataPtr)) => RootBlocks = {}

\* the getBytes calls of a trace
FetchesOf(trace) == SelectSeq(trace, LAMBDA ev : ev.e = "getBytes")

\* C14: when the backend rejects a getBytes of a read or readInto, at an
\* index batch or at a data batch, the call rejects with the very error the
\* backend rejected with, and the rejected getBytes is the last thing the
\* call did: no retry and no later batch.
C14_FetchFailureSurfacedUnchanged ==
  /\ (call.op \in {"read", "readInto"} /\ ~IsNull(call.rejected))
       => /\ call.pc = "done" /\ call.res = "IOError"
          /\ call.thrown = call.rejected
          /\ call.trace # <<>> /\ call.trace[Len(call.trace)].e = "getBytes"
          /\ Len(FetchesOf(call.trace)) = call.fetches
  /\ (call.op \in {"read", "readInto"} /\ call.res = "IOError") => ~IsNull(call.rejected)

\* C14 witness: the second data-batch fetch of a read was rejected with a
\* timeout and the read rejected with it
C14_Witness ==
  /\ call.op = "read" /\ call.pc = "done" /\ call.res = "IOError"
  /\ call.rejected = Some("Timeout") /\ call.thrown = Some("Timeout")
  /\ call.ib = 1 /\ call.db = 2 /\ call.fetches = 3

\* C15: a read or readInto that fails leaves no partly written output: the
\* array given to readInto holds its prior contents while the call is
\* suspended and after it has failed, and a failed read returns no array.
C15_NoPartialOutputOnFailure ==
  /\ (call.op = "readInto" /\ ~(call.pc = "done" /\ call.res = "ok")) => call.output = call.given
  /\ (call.op = "read" /\ ~(call.pc = "done" /\ call.res = "ok")) => IsNull(call.val)

\* C15 witness: a readInto failed at a fetch after a data batch had been
\* decoded, and the caller's array is as it was given
C15_Witness ==
  /\ call.op = "readInto" /\ call.pc = "done" /\ call.res = "IOError"
  /\ \E j \in 1 .. Len(call.trace) : call.trace[j].e = "decode"
  /\ \E j \in 1 .. Len(call.outputPtr) : ~IsNull(call.outputPtr[j])
  /\ Len(call.given) = 4 /\ call.output = call.given

\* the probe protocol of a file: the header; and for a trailer-addressed
\* file the size query, the trailer at size - trailerSize, and the root
\* record where the trailer says it is
ProbeProtocol(f) ==
  <<[op |-> "getBytes", offset |-> 0, size |-> HeaderSize]>> \o
  (IF f.headerType = OM_HEADER_READ_TRAILER
   THEN <<[op |-> "count", offset |-> 0, size |-> 0],
          [op |-> "getBytes", offset |-> f.size - TrailerSize, size |-> TrailerSize],
          [op |-> "getBytes", offset |-> f.root.offset, size |-> f.root.size]>>
   ELSE <<>>)

\* C16: the backend calls of an initialize() are, in order, a prefix of the
\* probe protocol of the file: getBytes(0, headerSize) first; nothing more
\* and no count() for a Legacy header; for a trailer-addressed header
\* count(), then the trailer at count() - trailerSize, then the root record
\* at the trailer's (offset, size); a successful initialize() has issued
\* the whole protocol.
C16_InitializeProbeProtocol ==
  /\ Len(init.calls) <= Len(ProbeProtocol(file))
  /\ init.calls = SubSeq(ProbeProtocol(file), 1, Len(init.calls))
  /\ init.pc # "idle" => init.calls # <<>>
  /\ (init.pc = "idle" /\ init.res = "ok" /\ init.calls # <<>>) => init.calls = ProbeProtocol(file)

\* C16 witness: initialize() succeeded on the trailer-addressed file after
\* its four backend calls
C16_Witness ==
  /\ init.pc = "idle" /\ init.res = "ok" /\ file.headerType = OM_HEADER_READ_TRAILER
  /\ Len(init.calls) = 4 /\ init.calls[2].op = "count"
  /\ init.calls[3] = [op |-> "getBytes", offset |-> 1000, size |-> 24]

\* the sequential schedule of a request: for every index batch the planner
\* produces, in its order, the fetch of the batch and then, for every data
\* batch of it, in order, the fetch of the data batch and its decode
RECURSIVE DataSchedule(_, _)
DataSchedule(batches, j) ==
  IF j > Len(batches) THEN <<>>
  ELSE <<[e |-> "getBytes", offset |-> batches[j].offset, size |-> batches[j].size, chunks |-> <<>>],
         [e |-> "decode", offset |-> batches[j].offset, size |-> batches[j].size,
          chunks |-> batches[j].chunks]>>
       \o DataSchedule(batches, j + 1)

RECURSIVE Schedule(_, _, _)
Schedule(f, dec, k) ==
  LET ibs == IndexBatches(f, dec) IN
  IF k > Len(ibs) THEN <<>>
  ELSE <<[e |-> "getBytes", offset |-> ibs[k].offset, size |-> ibs[k].size, chunks |-> <<>>]>>
       \o DataSchedule(DataBatches(f, dec, k), 1)
       \o Schedule(f, dec, k + 1)

\* C17: within a read or readInto the pipeline is sequential: at most one
\* getBytes is in flight; what the call has fetched and decoded is, in
\* order, a prefix of the schedule in which every data batch is decoded
\* before the next getBytes and all data batches of an index batch come
\* before the next index batch; a call that resolves has run the whole
\* schedule.
C17_PipelineStrictlySequential ==
  (call.op \in {"read", "readInto"} /\ call.decoder # NoDecoder) =>
    LET plan == Schedule(file, call.decoder, 1) IN
    /\ call.fetches - call.settled \in {0, 1}
    /\ call.fetches - call.settled = 1 <=> call.pc \in {"index", "data"}
    /\ Len(call.trace) <= Len(plan)
    /\ call.trace = SubSeq(plan, 1, Len(call.trace))
    /\ (call.pc = "done" /\ call.res = "ok") => call.trace = plan

\* C17 witness: a read over several index batches is suspended at the fetch
\* of its second index batch, the data batch of the first fetched and decoded
C17_Witness ==
  /\ call.op = "read" /\ call.pc = "index" /\ call.ib = 2
  /\ Len(IndexBatches(file, call.decoder)) > 2
  /\ Len(call.trace) = 4 /\ call.trace[3].e = "decode" /\ call.trace[4].e = "getBytes"
  /\ call.fetches = 3 /\ call.settled = 2

\* the decoder of a request, from the file's variable, the ranges and the
\* tunables alone
PlanOf(f, req, tun) ==
  om_decoder_init(f.var, Len(req),
                  [d \in 1 .. Len(req) |-> req[d].start],
                  [d \in 1 .. Len(req) |-> req[d].end - req[d].start],
                  [d \in 1 .. Len(req) |-> 0],
                  [d \in 1 .. Len(req) |-> req[d].end - req[d].start],
                  tun.merge, tun.max).decoder

\* C18: the backend calls of a read or readInto are a function of the file,
\* the ranges and the tunables only: a call that resolves has issued
\* exactly the getBytes calls of the schedule planned from those three, and
\* a second call with the same ranges and tunables issues the same calls
\* with the same arguments in the same order as the first.
C18_FetchSequenceDeterministic ==
  /\ (call.op \in {"read", "readInto"} /\ call.pc = "done" /\ call.res = "ok")
       => FetchesOf(call.trace) = FetchesOf(Schedule(file, PlanOf(file, call.req, call.tun), 1))
  /\ (call.op \in {"read", "readInto"} /\ call.round = 2)
       => LET now == FetchesOf(call.trace)
              before == FetchesOf(call.firstTrace)
          IN  /\ Len(now) <= Len(before)
              /\ now = SubSeq(before, 1, Len(now))
              /\ (call.pc = "done" /\ call.res = "ok") => now = before

\* C18 witness: a second read has resolved after the same three fetches as
\* the first
C18_Witness ==
  /\ call.op = "read" /\ call.round = 2 /\ call.pc = "done" /\ call.res = "ok"
  /\ Len(FetchesOf(call.firstTrace)) = 3
  /\ FetchesOf(call.trace) = FetchesOf(call.firstTrace)

\* C20: readScalar(expectedType) on an Initialized reader whose type is
\* expectedType and whose scalar payload is malformed (the native getter
\* reports an error) fails with DecodeError; it does not return "no value".
C20_MalformedScalarIsDecodeError ==
  (call.op = "readScalar" /\ call.at = "Initialized" /\ call.pc = "done" /\ ~IsNull(variable)
     /\ call.dtype = This.type /\ om_variable_get_scalar(This).error # ERROR_OK)
    => call.res = "DecodeError"

\* the caller holds a child reader and the reader it was obtained from
HasChild == ~IsNull(parent)

\* C19: a child obtained via getChild is independent of its parent.  It
\* owns a live metadata buffer of its own, holding its own record; whether
\* or not the parent has been disposed, also while a read of the child is
\* suspended, the child's accessors return the child's metadata and its
\* reads (the child itself not disposed under them) resolve with the child's
\* data and never fail as not initialized;
\* the parent's buffer stays live until the parent itself is disposed; and
\* no step of the child changes the parent's fields, nor does disposing
\* the parent change the child's fields or its call.
C19_ChildIndependentOfParent ==
  /\ [](HasChild =>
          /\ ~IsNull(variableDataPtr) =>
               /\ heap[Get(variableDataPtr)].live
               /\ heap[Get(variableDataPtr)].data = file.childAt
               /\ variableDataPtr # Get(parent).variableDataPtr
          /\ ~IsNull(Get(parent).variableDataPtr) =>
               /\ heap[Get(Get(parent).variableDataPtr)].live
               /\ heap[Get(Get(parent).variableDataPtr)].data = file.root
          /\ (call.at = "Initialized" /\ call.pc = "done") =>
               /\ call.res # "NotInitialized"
               /\ call.op = "dataType" => call.val = <<file.child.type>>
               /\ call.op = "getDimensions" => call.val = file.child.dims
               /\ call.op = "getName" => call.val = file.child.name
               /\ (call.op = "read" /\ call.res = "ok" /\ ~call.stale) =>
                    /\ Len(call.output) = ExtentProduct(call.req)
                    /\ \A i \in 1 .. Len(call.output) :
                         call.output[i] = FileValue(file.child, CoordinateOf(call.req, i)))
  /\ [][(HasChild /\ ~IsNull(parent'))
          => /\ parent' # parent => (reader' = reader /\ call' = call)
             /\ (reader' # reader \/ call' # call) => parent' = parent]_vars

\* C19 witness: the parent has been disposed and a read of the whole child
\* array has resolved with the child's values
C19_Witness ==
  /\ HasChild /\ IsNull(Get(parent).variable) /\ IsNull(Get(parent).variableDataPtr)
  /\ call.op = "read" /\ call.at = "Initialized" /\ call.pc = "done" /\ call.res = "ok"
  /\ call.output = <<0, 1, 2>> /\ call.fetches = 2

\* C21: looking up a child by index on an Initialized reader fails with
\* IndexOutOfRange for every index >= numberOfChildren(); for an index below
\* it the child's (offset, size) is fetched and the child parsed from it.
C21_ChildIndexOutOfRange ==
  /\ (call.op = "getChild" /\ call.at = "Initialized" /\ call.pc = "done" /\ ~IsNull(variable)
        /\ call.i >= Len(This.children))
       => call.res = "IndexOutOfRange"
  /\ (call.op = "getChild" /\ call.at = "Initialized" /\ call.pc = "child" /\ ~IsNull(variable))
       => (call.i < Len(This.children) /\ call.loc = This.children[call.i + 1])

\* the nodes of the file's tree: the root with the location the reader holds
\* for it, and the records below it with the location they are stored at
TreeNodeSet == {[var |-> file.var, loc |-> offsetSize]}
                 \cup {[var |-> n.var, loc |-> Some(n.at)] : n \in file.nodes}

\* a chain is a root-to-node path of the tree
IsChain(ch) ==
  /\ ch[1] = [var |-> file.var, loc |-> offsetSize]
  /\ \A j \in 2 .. Len(ch) :
       /\ ch[j] # ch[1]
       /\ \E k \in 1 .. Len(ch[j - 1].var.children) : ch[j - 1].var.children[k] = Get(ch[j].loc)

Chains == {ch \in UNION {[1 .. k -> TreeNodeSet] : k \in 1 .. MaxDepth} : IsChain(ch)}

\* the '/'-joined names of a chain's named nodes
KeyOf(ch) ==
  LET named == SelectSeq(ch, LAMBDA n : ~IsNull(n.var.name))
  IN  Join([j \in 1 .. Len(named) |-> Get(named[j].var.name)])

\* the chains of the nodes that have a name and a location
Recorded == {ch \in Chains : ~IsNull(ch[Len(ch)].var.name) /\ ~IsNull(ch[Len(ch)].loc)}

EntryOf(ch) == [key |-> KeyOf(ch), loc |-> Get(ch[Len(ch)].loc)]

ChildIndex(ch, j) == CHOOSE k \in 1 .. Len(ch[j - 1].var.children) : ch[j - 1].var.children[k] = Get(ch[j].loc)

\* x comes before y in depth-first order: x is an ancestor of y, or where
\* they part x goes into the earlier child
Before(x, y) ==
  \/ Len(x) < Len(y) /\ \A j \in 1 .. Len(x) : x[j] = y[j]
  \/ \E j \in 2 .. Min(Len(x), Len(y)) :
       /\ \A i \in 1 .. j - 1 : x[i] = y[i]
       /\ x[j] # y[j]
       /\ ChildIndex(x, j) < ChildIndex(y, j)

\* the child fetches of the walk visit every node below the root once, in
\* depth-first order
DepthFirst ==
  LET below == {ch \in Chains : Len(ch) > 1}
      At(ch) == {j \in 1 .. Len(call.trace) :
                   Region(call.trace[j].offset, call.trace[j].size) = Get(ch[Len(ch)].loc)}
  IN  /\ Len(call.trace) = Cardinality(below)
      /\ \A ch \in below : Cardinality(At(ch)) = 1
      /\ \A x, y \in below : Before(x, y) => \A i \in At(x), j \in At(y) : i < j

FlatDone ==
  call.op = "getFlatVariableMetadata" /\ call.at = "Initialized" /\ call.pc = "done" /\ call.res = "ok"

\* C22 as stated: the walk is depth-first over the whole tree and the map
\* holds, for exactly the nodes with a name and a location, the node's
\* location under the '/'-joined names of its named ancestors and itself.
C22_EntryForEveryNamedLocatedNode ==
  FlatDone => (DepthFirst /\ call.flat = {EntryOf(ch) : ch \in Recorded})

\* C22: the walk is depth-first over the whole tree; the map's keys are the
\* '/'-joined name paths of the nodes with a name and a location (nodes
\* without either are walked, not recorded), and each key holds the location
\* of the last such node of that path in depth-first order.
C22_FlatMapOfLastNodePerPath ==
  FlatDone =>
    /\ DepthFirst
    /\ call.flat = {EntryOf(ch) : ch \in {x \in Recorded :
                                           \A y \in Recorded : KeyOf(y) = KeyOf(x) => ~Before(x, y)}}

C22_Witness ==
  /\ FlatDone /\ file = SameNameTreeFile
  /\ [key |-> "root/a", loc |-> Region(340, 30)] \in call.flat
  /\ [key |-> "root/a/c", loc |-> Region(300, 30)] \in call.flat
  /\ Len(call.trace) = 4

\* C30: getFlatVariableMetadata leaves no native buffer allocated that was
\* not allocated before the call, whether it resolves or rejects.
C30_WalkLeavesNoBufferBehind ==
  (call.op = "getFlatVariableMetadata" /\ call.pc = "done") => LiveBlocks(heap) \subseteq call.before

\* C23: every backend's getBytes(offset, size) either resolves with exactly
\* size bytes or fails, also when offset + size extends past the end of the
\* source.
C23_GetBytesExactlySizeOrFails ==
  backendCall.res = "ok" => backendCall.len = backendCall.size

\* C27: getWasmModule() throws "WASM module not initialized" as long as no
\* initWasm() call has completed and returns the wrapped module afterwards;
\* an initWasm() call made after one has completed resolves to the module
\* that one resolved to, without importing or wrapping again.
C27_ModuleInitializedOnce ==
  \A c \in Callers :
    LET w == wasmCalls[c] IN
    /\ (w.op = "getWasmModule" /\ w.since = {}) => w.res = "WASM module not initialized"
    /\ (w.op = "getWasmModule" /\ w.since # {}) => (w.res = "ok" /\ Get(w.val) \in w.since)
    /\ (w.op = "initWasm" /\ w.since # {})
         => (w.pc = "done" /\ w.res = "ok" /\ w.since = {Get(w.val)} /\ ~w.imported)

\* a read or readInto that has resolved
ReadDone == call.op \in {"read", "readInto"} /\ call.pc = "done" /\ call.res = "ok"

\* what the call fetched and decoded, as the backend and the decoder saw it:
\* the fetches inside the index table, and the decoded batches
IndexFetches == SelectSeq(call.trace, LAMBDA ev : ev.e = "getBytes" /\ ev.offset >= file.index.offset
                                                   /\ ev.offset < file.index.offset + file.index.size)
Decodes == SelectSeq(call.trace, LAMBDA ev : ev.e = "decode")

RECURSIVE Flatten(_)
Flatten(ss) == IF ss = <<>> THEN <<>> ELSE Head(ss) \o Flatten(Tail(ss))

\* the chunks decoded, in the order they were decoded
DecodedChunks == Flatten([j \in 1 .. Len(Decodes) |-> Decodes[j].chunks])

Covers(ev, span) == ev.offset <= span.offset /\ span.offset + span.size <= ev.offset + ev.size

\* the index fetches that cover chunk k's index entry, the decoded batches
\* that hold chunk k
IndexBatchesOf(k) == {j \in 1 .. Len(IndexFetches) : Covers(IndexFetches[j], IndexSpan(file, k))}
DataBatchesOf(k) == {j \in 1 .. Len(Decodes) : \E i \in 1 .. Len(Decodes[j].chunks) : Decodes[j].chunks[i] = k}

\* the rule for a batch that starts at "start" and so far ends with span
\* "last", and the next span
MergeRule(start, last, next, tun) ==
  /\ next.offset - (last.offset + last.size) <= tun.merge
  /\ (last.offset + last.size) - start + next.size <= tun.max

\* C24: walking the required spans in ascending offset order, the next span
\* joins the current batch if and only if its gap to the batch's end is at
\* most mergeThreshold (inclusive) and the batch with it stays within
\* maxBatchSize; otherwise a new batch starts at that span.  The rule holds
\* of the index spans and, within an index batch, of the data spans.
C24_CoalescingRule ==
  ReadDone =>
    LET ks == DecodedChunks IN
    /\ \A i \in 1 .. Len(ks) :
         Cardinality(IndexBatchesOf(ks[i])) = 1 /\ Cardinality(DataBatchesOf(ks[i])) = 1
    /\ Len(ks) > 0 =>
         /\ IndexFetches[1].offset = IndexSpan(file, ks[1]).offset
         /\ Decodes[1].offset = DataSpan(file, ks[1]).offset
    /\ \A i \in 1 .. Len(ks) - 1 :
         LET a == ks[i]
             b == ks[i + 1]
             ia == CHOOSE j \in IndexBatchesOf(a) : TRUE
             ib == CHOOSE j \in IndexBatchesOf(b) : TRUE
             da == CHOOSE j \in DataBatchesOf(a) : TRUE
             db == CHOOSE j \in DataBatchesOf(b) : TRUE
         IN  /\ IndexSpan(file, a).offset < IndexSpan(file, b).offset
             /\ (ia = ib) <=> MergeRule(IndexFetches[ia].offset, IndexSpan(file, a), IndexSpan(file, b), call.tun)
             /\ ia # ib => (ib = ia + 1 /\ IndexFetches[ib].offset = IndexSpan(file, b).offset)
             /\ (da = db) <=> (ia = ib /\ MergeRule(Decodes[da].offset, DataSpan(file, a), DataSpan(file, b),
                                                    call.tun))
             /\ da # db => (db = da + 1 /\ Decodes[db].offset = DataSpan(file, b).offset)

\* C24 witness: with a maximum of 32 bytes and no gap allowed, a read has
\* fetched two adjacent 16-byte index entries in one batch (gap = threshold,
\* size = maximum) and the third in the next
C24_Witness ==
  /\ ReadDone /\ call.tun = [max |-> 32, merge |-> 0]
  /\ Len(IndexFetches) >= 2 /\ IndexFetches[1].size = 32
  /\ Len(Decodes) >= 2 /\ Len(Decodes[1].chunks) = 2

\* the fetches outside the index table: the data batches
DataFetches == SelectSeq(call.trace, LAMBDA ev : ev.e = "getBytes" /\ ~(ev.offset >= file.index.offset
                                                   /\ ev.offset < file.index.offset + file.index.size))

\* the coordinates a request asks for, and the chunk a coordinate lies in
\* (row-major number in the chunk grid, from 0)
RequestedCoordinates(req) ==
  LET ends == {req[d].end : d \in 1 .. Len(req)}
      last == CHOOSE m \in ends : \A e \in ends : e <= m
  IN  {g \in [1 .. Len(req) -> 0 .. last] : \A d \in 1 .. Len(req) : g[d] >= req[d].start /\ g[d] < req[d].end}
ChunkOf(v, g) == Linearize([d \in 1 .. Len(g) |-> g[d] \div v.chunks[d]], ChunkGrid(v))

\* the chunks that overlap the request
NeededChunks == {ChunkOf(file.var, g) : g \in RequestedCoordinates(call.req)}

Ascending(evs) == \A i \in 1 .. Len(evs) - 1 : evs[i].offset + evs[i].size <= evs[i + 1].offset

\* C25: for every request and every pair of tunables, each chunk that
\* overlaps the request is covered by exactly one data batch and decoded
\* exactly once; a chunk larger than maxBatchSize is a batch of its own; and
\* the batches are emitted in ascending offset order without overlap.
C25_NoChunkDropped ==
  ReadDone =>
    /\ \A k \in NeededChunks :
         /\ Cardinality({i \in 1 .. Len(DecodedChunks) : DecodedChunks[i] = k}) = 1
         /\ Cardinality({j \in 1 .. Len(DataFetches) : Covers(DataFetches[j], DataSpan(file, k))}) = 1
         /\ DataSpan(file, k).size > call.tun.max =>
              \E j \in 1 .. Len(Decodes) : Decodes[j].chunks = <<k>> /\ Decodes[j].size = DataSpan(file, k).size
    /\ Len(DataFetches) = Len(Decodes)
    /\ \A j \in 1 .. Len(Decodes) :
         DataFetches[j].offset = Decodes[j].offset /\ DataFetches[j].size = Decodes[j].size
    /\ Ascending(DataFetches)
    /\ Ascending(IndexFetches)

\* C25 witness: a read with a maximum of 8 bytes has resolved after decoding
\* several chunks, one of them a 10-byte chunk in a batch of its own
C25_Witness ==
  /\ ReadDone /\ call.tun.max = 8
  /\ Cardinality(NeededChunks) >= 2
  /\ \E j \in 1 .. Len(Decodes) : Decodes[j].size = 10 /\ Len(Decodes[j].chunks) = 1

\* C26: the chunk-grid walk produces exactly the chunks whose extent
\* intersects the requested range in every dimension, in row-major order,
\* and every chunk coordinate c it produces has c[d] * chunkShape[d] <
\* dimensions[d] in every dimension d.
C26_GridWalkInsideDimensions ==
  ReadDone =>
    LET ks == DecodedChunks
        v == file.var
    IN  /\ {ks[i] : i \in 1 .. Len(ks)} = NeededChunks
        /\ \A i \in 1 .. Len(ks) - 1 : ks[i] < ks[i + 1]
        /\ \A i \in 1 .. Len(ks) :
             /\ ks[i] >= 0 /\ ks[i] < Product(ChunkGrid(v))
             /\ LET c == Unlinearize(ks[i], ChunkGrid(v)) IN
                \A d \in 1 .. Len(v.dims) :
                  /\ c[d] * v.chunks[d] < v.dims[d]
                  /\ c[d] * v.chunks[d] < call.req[d].end
                  /\ (c[d] + 1) * v.chunks[d] > call.req[d].start

\* C26 witness: a read of rows 1..3 and columns 2..3 of the [5,5] file has
\* decoded chunks (0,1) and (1,1), and no other
C26_Witness ==
  /\ ReadDone /\ file = TestFile
  /\ call.req = <<[start |-> 1, end |-> 4], [start |-> 2, end |-> 4]>>
  /\ DecodedChunks = <<1, 4>>

\* C28: no native call made by an in-flight read or readInto uses the
\* reader's variable handle after its metadata buffer has been freed: when
\* dispose() runs while the read is suspended at a fetch, the resumed read
\* makes no native call on the decoder (it fails with NotInitialized), or
\* the buffer is still allocated.
C28_NoNativeCallAfterFree ==
  call.op \in {"read", "readInto"} =>
    /\ ~call.uaf
    /\ (call.stale /\ call.pc = "done" /\ IsNull(call.rejected)) => call.res = "NotInitialized"

\* C29: every temporary native buffer allocated by initialize() (header
\* copy, trailer copy, the two out-parameter cells) is freed on every exit
\* path, also when backend.count() or a backend.getBytes() rejects.
C29_InitializeFreesTemporaries ==
  (init.pc = "idle" /\ init.res # "none") => init.temps = {}

-----------------------------------------------------------------------------
(* C31: readInto() writes only the first N elements of the caller's array, *)
(* N being the product of the requested extents: after a readInto() that   *)
(* resolved, every element at an index of N or more holds the value it     *)
(* held before the call.                                                   *)

C31_ReadIntoWritesOnlyRequestedElements ==
  (call.op = "readInto" /\ call.pc = "done" /\ call.res = "ok" /\ ~call.stale)
    => \A i \in 1 .. Len(call.output) :
         i > TotalSize(call.req) => call.output[i] = call.given[i]

-----------------------------------------------------------------------------
(* C32: request validation precedes all I/O.  A read() or readInto() that  *)
(* fails for a data-type mismatch, a rank mismatch, an undersized array or *)
(* an invalid range has issued no backend call, and every native buffer it *)
(* allocated before the check has been freed, once each.                   *)

ValidationErrors == {"InvalidDataType", "DimensionMismatch", "BufferTooSmall", "RangeOutOfBounds", "RangeError"}

C32_ValidationPrecedesIO ==
  (call.op \in {"read", "readInto"} /\ call.pc = "done" /\ call.res \in ValidationErrors)
    => /\ call.fetches = 0 /\ call.settled = 0
       /\ FetchesOf(call.trace) = <<>>
       /\ call.live = {} /\ call.frees = call.mallocs /\ ~call.misuse

\* a request rejected for its range, after the four request arrays were
\* allocated
C32_Witness ==
  /\ call.op \in {"read", "readInto"} /\ call.pc = "done" /\ call.res = "RangeOutOfBounds"
  /\ call.mallocs = Cardinality(RequestArrays) /\ call.round = 1

-----------------------------------------------------------------------------
(* C33: read()/readInto() calls interleaved at their awaits on one         *)
(* Initialized reader do not interfere.  Each call holds blocks of its own *)
(* only, frees and writes none of another call, resolves with the values   *)
(* of its requested slice after the fetches planned for its own request,   *)
(* fails only for its own request or its own rejected fetch, and has freed *)
(* all it allocated when it has settled.                                   *)

\* the blocks caller k allocated and has not freed
BlocksOf(k) == {a \in WasmAddrs : wasmHeap[a].owner = k}

\* the request lies inside the variable
ValidRanges(req) ==
  /\ Len(req) = Len(file.var.dims)
  /\ \A i \in 1 .. Len(req) : ~InvalidRange(req[i], file.var.dims[i])

-----------------------------------------------------------------------------
(* C34: every initWasm() call settles once the runtime has finished its    *)
(* start-up: a call that is waiting for its import or for the runtime      *)
(* eventually resolves or rejects, and all the calls that resolve, those   *)
(* started before the runtime had run included, resolve with one and the   *)
(* same wrapped module.                                                    *)

C34_EveryInitWasmSettles ==
  /\ \A c \in Callers : (wasmCalls[c].pc \in {"import", "runtime"}) ~> (wasmCalls[c].pc = "done")
  /\ [](Cardinality(wasmResolved) <= 1)

-----------------------------------------------------------------------------
(* C35: MemoryHttpBackend loads the file once.  At most one fetch of the   *)
(* whole file is in flight, the callers waiting for a load wait for the    *)
(* same one, a load that has completed is repeated only by reload(), and   *)
(* the data held is that of the newest load started: an older load still   *)
(* in flight never replaces it.                                            *)

\* the loads whose fetch of the whole file is in flight
FetchesInFlight == {n \in LoadIds : mhb.loads[n].pc \in {"fetch", "body"}}

\* the loads that have stored their data
LoadsResolved == {n \in LoadIds : mhb.loads[n].pc = "resolved"}

C35_OneLoadShared ==
  /\ Cardinality(FetchesInFlight) <= 1
  /\ \A c1, c2 \in Callers :
       (mhb.calls[c1].pc = "wait" /\ mhb.calls[c2].pc = "wait"
          /\ mhb.calls[c1].on.kind = "load" /\ mhb.calls[c2].on.kind = "load")
         => mhb.calls[c1].on = mhb.calls[c2].on
  /\ Cardinality(LoadsResolved) <= 1 + mhb.reloads
  /\ ~IsNull(mhb.fileData) => \A n \in LoadsResolved : n <= Get(mhb.fileData).by

-----------------------------------------------------------------------------
(* C36: MemoryHttpBackend enforces maxFileSize on every call.  When the    *)
(* Content-Length of the resource exceeds maxFileSize no count() call      *)
(* resolves, the first or a later one, no load issues the fetch of the     *)
(* body, and no getBytes() is served.                                      *)

C36_MaxFileSizeEnforcedOnEveryCall ==
  mhb.remote > MaxFileSize
    => /\ \A c \in Callers : mhb.calls[c].op \in {"count", "getBytes"} => mhb.calls[c].res # "ok"
       /\ \A n \in LoadIds : mhb.loads[n].pc \notin {"fetch", "body", "resolved"}
       /\ IsNull(mhb.fileData)

-----------------------------------------------------------------------------
(* C37: the cache accounting of S3Backend.  Under any interleaving of      *)
(* getBytes() calls, two calls that both miss the same range included, and *)
(* of clearCache() calls, cacheSize is the sum of the byte lengths of the  *)
(* arrays in cachedRanges; with the cache disabled it stays empty.         *)

C37_CacheSizeIsSumOfEntries ==
  /\ s3.cacheSize = ByteLengths(s3.cachedRanges)
  /\ ~s3.cacheEnabled => s3.cachedRanges = {}

-----------------------------------------------------------------------------
(* C38: the cache bound of S3Backend.  The bytes held in the range cache   *)
(* never exceed cacheMaxSize, whatever the getBytes() calls and whatever   *)
(* the size of a response, one larger than cacheMaxSize included.          *)

C38_CacheWithinMaxSize == ByteLengths(s3.cachedRanges) <= CacheMaxSize

====
